---- MODULE Spec2Model ----
(***************************************************************************)
(* A model of the ray tracing core of cs184_as2: the transform_t mutators, *)
(* the aabb tree (aabb_tree_t / aabb_node_t), the shapes it dispatches to  *)
(* and the recursive scene_t::trace.                                       *)
(*                                                                         *)
(* Numbers.  The program computes in IEEE single precision.  The model     *)
(* computes with exact fractions n/d, extended with the IEEE special       *)
(* values that the code produces by dividing by zero: +inf, -inf, NaN and  *)
(* the signed zero.  Rounding is not modelled: every input the actions     *)
(* draw (small integers, axis-aligned unit directions, unit spheres) is    *)
(* represented exactly in a float and stays exact under the operations     *)
(* applied to it.  The mirror scene of SpecTrace is the exception: its     *)
(* reflected directions (7/25, 24/25, 0) and (5/13, -12/13, 0) are kept    *)
(* exact here and rounded to the nearest float by the program.             *)
(*   finite non-zero   [n |-> n, d |-> d], d > 0, gcd(n, d) = 1            *)
(*   +0                [n |-> 0, d |-> 1]                                  *)
(*   -0                [n |-> 0, d |-> -1]                                 *)
(*   +inf, -inf        [n |-> 1, d |-> 0], [n |-> -1, d |-> 0]             *)
(*   NaN               [n |-> 0, d |-> 0]                                  *)
(***************************************************************************)
EXTENDS Integers, Sequences, FiniteSets, TLC

Abs(x) == IF x < 0 THEN -x ELSE x

RECURSIVE GCD(_, _)
GCD(a, b) == IF b = 0 THEN a ELSE GCD(b, a % b)

PosZero == [n |-> 0, d |-> 1]
NegZero == [n |-> 0, d |-> -1]
PosInf == [n |-> 1, d |-> 0]
NegInf == [n |-> -1, d |-> 0]
NaN == [n |-> 0, d |-> 0]

IsNaN(a) == a.n = 0 /\ a.d = 0
IsInf(a) == a.n # 0 /\ a.d = 0
IsZero(a) == a.n = 0 /\ a.d # 0
IsFinite(a) == a.d # 0

\* the sign bit of a float: -1 when it is set (negative values and -0)
Sgn(a) == IF a.n < 0 \/ (a.n = 0 /\ a.d < 0) THEN -1 ELSE 1

SignedZero(s) == IF s < 0 THEN NegZero ELSE PosZero
SignedInf(s) == IF s < 0 THEN NegInf ELSE PosInf

\* the fraction n/d (d > 0) in lowest terms; a zero result is +0
Frac(n, d) ==
    IF d = 1 THEN [n |-> n, d |-> 1]
    ELSE IF n = 0 THEN PosZero
    ELSE LET g == GCD(Abs(n), d)
         IN [n |-> n \div g, d |-> d \div g]

\* n/d for integers n and d # 0
Q(n, d) == IF d < 0 THEN Frac(-n, -d) ELSE Frac(n, d)
I(n) == [n |-> n, d |-> 1]

Neg(a) == IF a.n = 0 THEN [n |-> 0, d |-> -a.d] ELSE [n |-> -a.n, d |-> a.d]

Add(a, b) ==
    IF a.d # 0 /\ b.d # 0
    THEN IF a.n = 0
         THEN (IF b.n # 0 THEN b
               ELSE IF a.d < 0 /\ b.d < 0 THEN NegZero ELSE PosZero)
         ELSE IF b.n = 0 THEN a
         ELSE Frac(a.n * b.d + b.n * a.d, a.d * b.d)
    ELSE IF IsNaN(a) \/ IsNaN(b) THEN NaN
    ELSE IF IsInf(a) /\ IsInf(b) THEN (IF a.n = b.n THEN a ELSE NaN)
    ELSE IF IsInf(a) THEN a
    ELSE b

Sub(a, b) == Add(a, Neg(b))

Mul(a, b) ==
    IF a.d # 0 /\ b.d # 0
    THEN IF a.n = 0 \/ b.n = 0 THEN SignedZero(Sgn(a) * Sgn(b))
         ELSE Frac(a.n * b.n, a.d * b.d)
    ELSE IF IsNaN(a) \/ IsNaN(b) THEN NaN
    ELSE IF IsZero(a) \/ IsZero(b) THEN NaN
    ELSE SignedInf(Sgn(a) * Sgn(b))

Div(a, b) ==
    IF a.d # 0 /\ b.d # 0
    THEN IF b.n = 0
         THEN (IF a.n = 0 THEN NaN ELSE SignedInf(Sgn(a) * Sgn(b)))
         ELSE IF a.n = 0 THEN SignedZero(Sgn(a) * Sgn(b))
         ELSE IF b.n < 0 THEN Frac(-(a.n * b.d), a.d * (-b.n))
         ELSE Frac(a.n * b.d, a.d * b.n)
    ELSE IF IsNaN(a) \/ IsNaN(b) THEN NaN
    ELSE IF IsInf(a) /\ IsInf(b) THEN NaN
    ELSE IF IsInf(a) THEN SignedInf(Sgn(a) * Sgn(b))
    ELSE SignedZero(Sgn(a) * Sgn(b))

\* the C++ comparisons: every comparison with a NaN is false, -0 == +0
Lt(a, b) ==
    IF a.d # 0 /\ b.d # 0
    THEN (IF a.n = 0 THEN 0 < b.n
          ELSE IF b.n = 0 THEN a.n < 0
          ELSE a.n * b.d < b.n * a.d)
    ELSE IF IsNaN(a) \/ IsNaN(b) THEN FALSE
    ELSE IF IsInf(a) THEN a.n < 0 /\ b # NegInf
    ELSE b.n > 0

Gt(a, b) == Lt(b, a)
Eq(a, b) == ~IsNaN(a) /\ ~IsNaN(b) /\ ~Lt(a, b) /\ ~Lt(b, a)
Le(a, b) == Lt(a, b) \/ Eq(a, b)
Ge(a, b) == Le(b, a)

\* std::max(a, b): (a < b) ? b : a
Max(a, b) == IF Lt(a, b) THEN b ELSE a

ISqrt(n) == CHOOSE r \in 0..n : r * r <= n /\ n < (r + 1) * (r + 1)

\* sqrt of a float; exact on every square of a fraction
Sqrt(a) ==
    IF IsNaN(a) THEN NaN
    ELSE IF IsZero(a) THEN a
    ELSE IF a.n < 0 THEN NaN
    ELSE IF IsInf(a) THEN PosInf
    ELSE Frac(ISqrt(a.n * a.d), a.d)

(***************************************************************************)
(* Eigen::Vector3f and Eigen::Matrix4f                                     *)
(***************************************************************************)
NUM_DIMS == 3
Dims == 1..NUM_DIMS

V(x, y, z) == <<I(x), I(y), I(z)>>
VAdd(a, b) == <<Add(a[1], b[1]), Add(a[2], b[2]), Add(a[3], b[3])>>
VSub(a, b) == <<Sub(a[1], b[1]), Sub(a[2], b[2]), Sub(a[3], b[3])>>
VNeg(a) == <<Neg(a[1]), Neg(a[2]), Neg(a[3])>>
VScale(k, a) == <<Mul(k, a[1]), Mul(k, a[2]), Mul(k, a[3])>>
VDivide(a, k) == <<Div(a[1], k), Div(a[2], k), Div(a[3], k)>>
Dot(a, b) == Add(Add(Mul(a[1], b[1]), Mul(a[2], b[2])), Mul(a[3], b[3]))
Cross(a, b) ==
    << Sub(Mul(a[2], b[3]), Mul(a[3], b[2])),
       Sub(Mul(a[3], b[1]), Mul(a[1], b[3])),
       Sub(Mul(a[1], b[2]), Mul(a[2], b[1])) >>
SquaredNorm(a) == Dot(a, a)
Norm(a) == Sqrt(SquaredNorm(a))
\* Eigen's normalize(): *this /= norm()
Normalize(a) == VDivide(a, Norm(a))
VEq(a, b) == \A i \in Dims : Eq(a[i], b[i])

Idx4 == 1..4

\* the tuple of a function on 1..n, with every entry computed
AsTuple(f) == f \o <<>>

Identity4 ==
    << <<I(1), I(0), I(0), I(0)>>, <<I(0), I(1), I(0), I(0)>>,
       <<I(0), I(0), I(1), I(0)>>, <<I(0), I(0), I(0), I(1)>> >>

Sum4(f) == Add(Add(Add(f[1], f[2]), f[3]), f[4])
MatMulEntry(A, B, i, j) ==
    Sum4(AsTuple([k \in Idx4 |-> Mul(A[i][k], B[k][j])]))
MatMulRow(A, B, i) == AsTuple([j \in Idx4 |-> MatMulEntry(A, B, i, j)])
MatMul(A, B) == AsTuple([i \in Idx4 |-> MatMulRow(A, B, i)])
Column(A, j) == <<A[1][j], A[2][j], A[3][j], A[4][j]>>
Transpose(A) == <<Column(A, 1), Column(A, 2), Column(A, 3), Column(A, 4)>>
MatEq(A, B) == \A i \in Idx4 : \A j \in Idx4 : Eq(A[i][j], B[i][j])

\* the 3x3 determinant of the rows r and the columns c of A
Det3(A, r, c) ==
    Add(Sub(Mul(A[r[1]][c[1]], Sub(Mul(A[r[2]][c[2]], A[r[3]][c[3]]),
                                   Mul(A[r[2]][c[3]], A[r[3]][c[2]]))),
            Mul(A[r[1]][c[2]], Sub(Mul(A[r[2]][c[1]], A[r[3]][c[3]]),
                                   Mul(A[r[2]][c[3]], A[r[3]][c[1]])))),
        Mul(A[r[1]][c[3]], Sub(Mul(A[r[2]][c[1]], A[r[3]][c[2]]),
                               Mul(A[r[2]][c[2]], A[r[3]][c[1]]))))
\* 1..4 without i, in order
Without(i) == <<IF 1 < i THEN 1 ELSE 2, IF 2 < i THEN 2 ELSE 3,
                IF 3 < i THEN 3 ELSE 4>>
\* the 3x3 determinant of A without row i and column j
Minor(A, i, j) == Det3(A, Without(i), Without(j))
Cofactor(A, i, j) ==
    Mul(I(IF (i + j) % 2 = 0 THEN 1 ELSE -1), Minor(A, i, j))
Det4(A) == Sum4(AsTuple([j \in Idx4 |-> Mul(A[1][j], Cofactor(A, 1, j))]))
\* Eigen's Matrix4f::inverse(): the cofactor matrix over the determinant
InverseRow(A, det, i) == AsTuple([j \in Idx4 |-> Div(Cofactor(A, j, i), det)])
Inverse(A) ==
    LET over(det) == AsTuple([i \in Idx4 |-> InverseRow(A, det, i)])
    IN over(Det4(A))

(***************************************************************************)
(* transform_t: the homogeneous matrix H and its cached inverse H_inv      *)
(***************************************************************************)
\* sin and cos of an angle in degrees, for the multiples of 90 the model uses
SinDeg(a) == CASE a % 360 = 0 -> I(0) [] a % 360 = 90 -> I(1)
               [] a % 360 = 180 -> I(0) [] a % 360 = 270 -> I(-1)
CosDeg(a) == CASE a % 360 = 0 -> I(1) [] a % 360 = 90 -> I(0)
               [] a % 360 = 180 -> I(-1) [] a % 360 = 270 -> I(0)

reset(t) == [H |-> Identity4, H_inv |-> Identity4]

TranslationMatrix(tx, ty, tz) ==
    << <<I(1), I(0), I(0), tx>>,
       <<I(0), I(1), I(0), ty>>,
       <<I(0), I(0), I(1), tz>>,
       <<I(0), I(0), I(0), I(1)>> >>

\* a transform of matrix H with the inverse computed from it
WithInverse(H) == [H |-> H, H_inv |-> Inverse(H)]

set_translation(t, tx, ty, tz) == WithInverse(TranslationMatrix(tx, ty, tz))

ScaleMatrix(sx, sy, sz) ==
    << <<sx, I(0), I(0), I(0)>>,
       <<I(0), sy, I(0), I(0)>>,
       <<I(0), I(0), sz, I(0)>>,
       <<I(0), I(0), I(0), I(1)>> >>

set_scale(t, sx, sy, sz) == WithInverse(ScaleMatrix(sx, sy, sz))

\* the Rodrigues matrix of the exponential map (rx, ry, rz), in degrees;
\* DEG2RAD scales the three components alike, so the unit axis r is the
\* same in degrees, and mag is kept in degrees for SinDeg and CosDeg
RotationMatrix(rx, ry, rz) ==
    LET R(r, cross, s, c, i, j) ==
            Sub(Add(Mul(r[i], r[j]), Mul(cross[i][j], s)),
                Mul(Add(Add(Mul(cross[i][1], cross[1][j]),
                            Mul(cross[i][2], cross[2][j])),
                        Mul(cross[i][3], cross[3][j])), c))
        H(r, cross, s, c) ==
            AsTuple([i \in Idx4 |-> AsTuple([j \in Idx4 |->
                IF i = 4 \/ j = 4 THEN (IF i = j THEN I(1) ELSE I(0))
                ELSE R(r, cross, s, c, i, j)])])
        about(r, mag) ==
            H(r, << <<I(0), Neg(r[3]), r[2]>>,
                    <<r[3], I(0), Neg(r[1])>>,
                    <<Neg(r[2]), r[1], I(0)>> >>,
              SinDeg(mag.n), CosDeg(mag.n))
        by(v, mag) == about(VDivide(v, mag), mag)
        of(v) == by(v, Norm(v))
    IN of(V(rx, ry, rz))

\* set_rotation assigns H only: H_inv keeps the value it had
set_rotation(t, rx, ry, rz) ==
    [H |-> RotationMatrix(rx, ry, rz), H_inv |-> t.H_inv]

\* cat with the argument applied first: H = H * t.H
cat_pre(this, t) == WithInverse(MatMul(this.H, t.H))

cat(this, t) == WithInverse(MatMul(t.H, this.H))

\* transform_t::operator=
assign(this, rhs) == [H |-> rhs.H, H_inv |-> rhs.H_inv]

Point4(p) == <<p[1], p[2], p[3], I(1)>>
Dir4(n) == <<n[1], n[2], n[3], I(0)>>

\* the first three components of A * x
Row4(A, i, x) ==
    Add(Add(Add(Mul(A[i][1], x[1]), Mul(A[i][2], x[2])), Mul(A[i][3], x[3])),
        Mul(A[i][4], x[4]))
MatVec3(A, x) == <<Row4(A, 1, x), Row4(A, 2, x), Row4(A, 3, x)>>

apply(t, p) == MatVec3(t.H, Point4(p))
apply_inverse(t, p) == MatVec3(t.H_inv, Point4(p))
apply_normal(t, n) == Normalize(MatVec3(Transpose(t.H_inv), Dir4(n)))

(***************************************************************************)
(* ray_t: an origin and a normalized direction                             *)
(***************************************************************************)
ray_set(oo, dd) == [origin |-> oo, direction |-> Normalize(dd)]
point_at(ray, t) == VAdd(ray.origin, VScale(t, ray.direction))

\* transform_t::apply_inverse(ray, s): the ray through the images of the
\* origin and of origin + dir, and the length s of the image of dir
apply_inverse_ray(t, ray) ==
    LET output(p, d) == [ray |-> ray_set(p, d), s |-> Norm(d)]
        through(p, q) == output(p, VSub(q, p))
    IN through(apply_inverse(t, ray.origin),
               apply_inverse(t, VAdd(ray.origin, ray.direction)))

(***************************************************************************)
(* aabb_t: bounds[i] = <<min, max>> along axis i                           *)
(***************************************************************************)
\* bounds(i, k) of the code, k = 0 for the min and 1 for the max
B(box, i, k) == box[i][k + 1]

aabb_reset == << <<I(1), I(-1)>>, <<I(1), I(-1)>>, <<I(1), I(-1)>> >>

expand_to_dim(b, x) ==
    IF Gt(b[1], b[2]) THEN <<x, x>>
    ELSE << IF Gt(b[1], x) THEN x ELSE b[1], IF Lt(b[2], x) THEN x ELSE b[2] >>
\* expand_to without the check for an invalid box
expand_to_valid_only(box, p) ==
    AsTuple([i \in Dims |-> << IF Gt(box[i][1], p[i]) THEN p[i] ELSE box[i][1],
                               IF Lt(box[i][2], p[i]) THEN p[i] ELSE box[i][2] >>])
expand_to(box, p) ==
    << expand_to_dim(box[1], p[1]), expand_to_dim(box[2], p[2]),
       expand_to_dim(box[3], p[3]) >>

\* aabb_t::expand_to(const aabb_t&), declared in aabb.h: an invalid box
\* becomes the input box, a valid one grows to include it
expand_to_box_dim(b, c) ==
    IF Gt(b[1], b[2]) THEN c
    ELSE << IF Gt(b[1], c[1]) THEN c[1] ELSE b[1],
            IF Lt(b[2], c[2]) THEN c[2] ELSE b[2] >>
expand_to_box(box, b) ==
    << expand_to_box_dim(box[1], b[1]), expand_to_box_dim(box[2], b[2]),
       expand_to_box_dim(box[3], b[3]) >>

\* aabb_t::center(d), used by aabb_node_t::midpoint
center(box, d) == Div(Add(box[d][1], box[d][2]), I(2))

\* bit di (0-based) of corner ci (0-based)
CornerBit(ci, di) == (ci \div (2 ^ di)) % 2

NUM_CORNERS_PER_BOX == 8
aabb_apply(box, t) ==
    LET orig_corner(ci) ==
            << B(box, 1, CornerBit(ci, 0)), B(box, 2, CornerBit(ci, 1)),
               B(box, 3, CornerBit(ci, 2)) >>
        fit(b, x) == << IF Gt(b[1], x) THEN x ELSE b[1],
                        IF Lt(b[2], x) THEN x ELSE b[2] >>
        RECURSIVE expand(_, _, _)
        expand(acc, trans, ci) ==
            IF ci >= NUM_CORNERS_PER_BOX THEN acc
            ELSE expand(AsTuple([d \in Dims |-> fit(acc[d], trans[ci + 1][d])]),
                        trans, ci + 1)
        box_of(trans) ==
            expand(AsTuple([d \in Dims |-> <<trans[1][d], trans[1][d]>>]),
                   trans, 1)
    IN box_of(AsTuple([c \in 1..NUM_CORNERS_PER_BOX |->
                          apply(t, orig_corner(c - 1))]))

NoHit == [hit |-> FALSE, t |-> NaN, n |-> V(0, 0, 0)]
Hit(t, n) == [hit |-> TRUE, t |-> t, n |-> n]

\* a unit vector along axis d with the given component
AxisNormal(d, c) ==
    << IF d = 1 THEN c ELSE I(0), IF d = 2 THEN c ELSE I(0),
       IF d = 3 THEN c ELSE I(0) >>

aabb_intersects(box, r, t_min, t_max) ==
    LET \* where the ray meets the two planes of axis i: <<entering, leaving>>
        slab(invdir, s, i) ==
            << Mul(Sub(B(box, i, s[i]), r.origin[i]), invdir[i]),
               Mul(Sub(B(box, i, 1 - s[i]), r.origin[i]), invdir[i]) >>
        \* 'if(tymin > tmin) ...; if(tymax < tmax) ...' for the slab ty of axis d
        clip(acc, ty, d) ==
            [tmin |-> IF Gt(ty[1], acc.tmin) THEN ty[1] ELSE acc.tmin,
             tmin_dim |-> IF Gt(ty[1], acc.tmin) THEN d ELSE acc.tmin_dim,
             tmax |-> IF Lt(ty[2], acc.tmax) THEN ty[2] ELSE acc.tmax,
             tmax_dim |-> IF Lt(ty[2], acc.tmax) THEN d ELSE acc.tmax_dim]
        out_of_range(acc) == Lt(acc.tmax, t_min) \/ Gt(acc.tmin, t_max)
        face(s, d) == AxisNormal(d, IF s[d] = 1 THEN I(1) ELSE I(-1))
        \* the checks of axis d and of the axes after it
        RECURSIVE test(_, _, _, _)
        test(acc, sl, s, d) ==
            IF out_of_range(acc) THEN NoHit
            ELSE IF d > NUM_DIMS
            THEN (IF Lt(acc.tmin, t_min) THEN Hit(t_min, face(s, acc.tmax_dim))
                  ELSE Hit(acc.tmin, face(s, acc.tmin_dim)))
            ELSE IF Gt(acc.tmin, sl[d][2]) \/ Gt(sl[d][1], acc.tmax) THEN NoHit
            ELSE test(clip(acc, sl[d], d), sl, s, d + 1)
        from(sl, s) ==
            test([tmin |-> sl[1][1], tmin_dim |-> 1,
                  tmax |-> sl[1][2], tmax_dim |-> 1], sl, s, 2)
        signed(invdir, s) ==
            from(AsTuple([i \in Dims |-> slab(invdir, s, i)]), s)
        cached(invdir) ==
            signed(invdir,
                   AsTuple([i \in Dims |-> IF Lt(invdir[i], I(0)) THEN 1 ELSE 0]))
    IN cached(AsTuple([i \in Dims |-> Div(I(1), r.direction[i])]))

(***************************************************************************)
(* shape_t: sphere_t and triangle_t; a null shape pointer is NullShape     *)
(***************************************************************************)
NullShape == [kind |-> "null"]

sphere_t(x, y, z, r) ==
    [kind |-> "sphere", center |-> <<x, y, z>>, radius |-> r,
     radius_squared |-> Mul(r, r)]

triangle_t(a, b, c) ==
    LET of(e0, e1) ==
            [kind |-> "triangle", verts |-> <<a, b, c>>,
             edges |-> <<e0, e1>>, normal |-> Normalize(Cross(e0, e1))]
    IN of(VSub(b, a), VSub(c, a))

sphere_intersects(sph, r, t_min, t_max) ==
    LET \* the normal of the sphere at the point of the ray at t
        at(t) ==
            Hit(t, Normalize(VDivide(VSub(point_at(r, t), sph.center),
                                     sph.radius)))
        two(t1, t2) ==
            IF Lt(t2, t_min) THEN NoHit
            ELSE IF Gt(t1, t_max) THEN NoHit
            ELSE IF Lt(t1, t_min) /\ Gt(t2, t_max) THEN NoHit
            ELSE at(IF Lt(t1, t_min) THEN t2 ELSE t1)
        roots(Bq, root) ==
            IF Lt(root, I(0)) THEN NoHit
            ELSE IF Eq(root, I(0)) THEN at(Div(Neg(Bq), I(2)))
            ELSE two(Div(Sub(Neg(Bq), Sqrt(root)), I(2)),
                     Div(Add(Neg(Bq), Sqrt(root)), I(2)))
        quadratic(Bq, Cq) == roots(Bq, Sub(Mul(Bq, Bq), Mul(I(4), Cq)))
        from(d, c) ==
            quadratic(Mul(I(-2), Dot(d, c)),
                      Sub(SquaredNorm(c), sph.radius_squared))
    IN from(r.direction, VSub(sph.center, r.origin))

\* triangle_intersects for the triangle without its edges
triangle_intersects_open(tri, r, t_min, t_max) ==
    LET uvt(det, u, v, t) ==
            IF Le(u, I(0)) \/ Ge(u, I(1)) THEN NoHit
            ELSE IF Le(v, I(0)) \/ Ge(Add(u, v), I(1)) THEN NoHit
            ELSE IF Lt(t, t_min) \/ Gt(t, t_max) THEN NoHit
            ELSE Hit(t, IF Lt(det, I(0)) THEN VScale(I(-1), tri.normal)
                        ELSE tri.normal)
        vecs(pvec, tvec, qvec, det, inv_det) ==
            uvt(det, Mul(Dot(tvec, pvec), inv_det),
                Mul(Dot(r.direction, qvec), inv_det),
                Mul(Dot(tri.edges[2], qvec), inv_det))
        with(pvec, tvec, det) ==
            vecs(pvec, tvec, Cross(tvec, tri.edges[1]), det, Div(I(1), det))
        from(pvec) ==
            with(pvec, VSub(r.origin, tri.verts[1]), Dot(tri.edges[1], pvec))
    IN from(Cross(r.direction, tri.edges[2]))

triangle_intersects(tri, r, t_min, t_max) ==
    LET uvt(det, u, v, t) ==
            IF Lt(u, I(0)) \/ Gt(u, I(1)) THEN NoHit
            ELSE IF Lt(v, I(0)) \/ Gt(Add(u, v), I(1)) THEN NoHit
            ELSE IF Lt(t, t_min) \/ Gt(t, t_max) THEN NoHit
            ELSE Hit(t, IF Lt(det, I(0)) THEN VScale(I(-1), tri.normal)
                        ELSE tri.normal)
        vecs(pvec, tvec, qvec, det, inv_det) ==
            uvt(det, Mul(Dot(tvec, pvec), inv_det),
                Mul(Dot(r.direction, qvec), inv_det),
                Mul(Dot(tri.edges[2], qvec), inv_det))
        with(pvec, tvec, det) ==
            vecs(pvec, tvec, Cross(tvec, tri.edges[1]), det, Div(I(1), det))
        from(pvec) ==
            with(pvec, VSub(r.origin, tri.verts[1]), Dot(tri.edges[1], pvec))
    IN from(Cross(r.direction, tri.edges[2]))

shape_intersects(sh, r, t_min, t_max) ==
    IF sh.kind = "sphere" THEN sphere_intersects(sh, r, t_min, t_max)
    ELSE triangle_intersects(sh, r, t_min, t_max)

sphere_get_bounds(sph) ==
    << <<Sub(sph.center[1], sph.radius), Add(sph.center[1], sph.radius)>>,
       <<Sub(sph.center[2], sph.radius), Add(sph.center[2], sph.radius)>>,
       <<Sub(sph.center[3], sph.radius), Add(sph.center[3], sph.radius)>> >>

triangle_get_bounds(tri) ==
    expand_to(expand_to(expand_to(aabb_reset, tri.verts[1]), tri.verts[2]),
              tri.verts[3])

get_bounds(sh) ==
    IF sh.kind = "sphere" THEN sphere_get_bounds(sh)
    ELSE triangle_get_bounds(sh)

(***************************************************************************)
(* element_t: a shape, its object-to-world transform and its shader        *)
(***************************************************************************)
element_intersects(e, r, t_min, t_max) ==
    LET \* the hit of the shape in object coordinates, brought to the world
        world(res, s) ==
            IF res.hit THEN Hit(Div(res.t, s), apply_normal(e.transform, res.n))
            ELSE NoHit
        object(a) ==
            world(shape_intersects(e.shape, a.ray, Mul(t_min, a.s),
                                   Mul(t_max, a.s)), a.s)
    IN IF e.shape = NullShape THEN NoHit
       ELSE object(apply_inverse_ray(e.transform, r))

(***************************************************************************)
(* aabb_node_t and aabb_tree_t.  A node is a record; a node pointer is     *)
(* NULL or New(node), and Deref reads the node it points to.  Element      *)
(* indices are 0-based as in the code: elements[i] is elems[i + 1] here.   *)
(***************************************************************************)
NULL == <<>>
New(node) == <<node>>
Deref(ptr) == ptr[1]
NUM_CHILDREN_PER_NODE == 2

\* aabb_node_t::aabb_t(): also the state that clear() leaves
aabb_node_t == [index |-> -1, bounds |-> aabb_reset, children |-> <<NULL, NULL>>]

\* aabb_node_t::init(int, const aabb_t&)
node_init_leaf(i, b) == [index |-> i, bounds |-> b, children |-> <<NULL, NULL>>]

isleaf(node) == node.children[1] = NULL /\ node.children[2] = NULL

midpoint(node, d) == center(node.bounds, d)
midpoint_vec(node) == <<midpoint(node, 1), midpoint(node, 2), midpoint(node, 3)>>

\* the loop of aabb_node_t::init that grows this->bounds and `midpoints`
RECURSIVE BoundsOf(_, _, _)
BoundsOf(leaf_nodes, i, acc) ==
    IF i > Len(leaf_nodes) THEN acc
    ELSE BoundsOf(leaf_nodes, i + 1,
                  [bounds |-> expand_to_box(acc.bounds, leaf_nodes[i].bounds),
                   midpoints |-> expand_to(acc.midpoints,
                                           midpoint_vec(leaf_nodes[i]))])

\* the loop without the update of dim_to_split
DimToSplit_first(midpoints, di, dim_size, dim_to_split) == dim_to_split

\* the loop that picks the dimension with the largest span of midpoints
RECURSIVE DimToSplit(_, _, _, _)
DimToSplit(midpoints, di, dim_size, dim_to_split) ==
    IF di > NUM_DIMS THEN dim_to_split
    ELSE LET len == Sub(midpoints[di][2], midpoints[di][1])
         IN IF Gt(len, dim_size)
            THEN DimToSplit(midpoints, di + 1, len, di)
            ELSE DimToSplit(midpoints, di + 1, dim_size, dim_to_split)

\* the loop without the branch for a leaf on the pivot
RECURSIVE Partition_drop_ties(_, _, _, _, _, _)
Partition_drop_ties(leaf_nodes, i, dim_to_split, pivot, left, right) ==
    IF i > Len(leaf_nodes) THEN <<left, right>>
    ELSE LET child_mid == midpoint(leaf_nodes[i], dim_to_split)
         IN IF Lt(child_mid, pivot)
            THEN Partition_drop_ties(leaf_nodes, i + 1, dim_to_split, pivot,
                                     Append(left, leaf_nodes[i]), right)
            ELSE IF Gt(child_mid, pivot)
            THEN Partition_drop_ties(leaf_nodes, i + 1, dim_to_split, pivot,
                                     left, Append(right, leaf_nodes[i]))
            ELSE Partition_drop_ties(leaf_nodes, i + 1, dim_to_split, pivot,
                                     left, right)

\* the loop that deals the leaves to the left and right lists
RECURSIVE Partition(_, _, _, _, _, _)
Partition(leaf_nodes, i, dim_to_split, pivot, left, right) ==
    IF i > Len(leaf_nodes) THEN <<left, right>>
    ELSE LET child_mid == midpoint(leaf_nodes[i], dim_to_split)
         IN IF Lt(child_mid, pivot)
            THEN Partition(leaf_nodes, i + 1, dim_to_split, pivot,
                           Append(left, leaf_nodes[i]), right)
            ELSE IF Gt(child_mid, pivot)
            THEN Partition(leaf_nodes, i + 1, dim_to_split, pivot,
                           left, Append(right, leaf_nodes[i]))
            ELSE IF Len(left) < Len(right)
            THEN Partition(leaf_nodes, i + 1, dim_to_split, pivot,
                           Append(left, leaf_nodes[i]), right)
            ELSE Partition(leaf_nodes, i + 1, dim_to_split, pivot,
                           left, Append(right, leaf_nodes[i]))

RECURSIVE node_init(_)

\* aabb_node_t::init(leaf_nodes) for two leaves: one child for each
node_init_pair(leaf_nodes) ==
    [index |-> -1,
     bounds |-> expand_to_box(expand_to_box(aabb_reset, leaf_nodes[1].bounds),
                              leaf_nodes[2].bounds),
     children |-> << New(node_init_leaf(leaf_nodes[1].index,
                                        leaf_nodes[1].bounds)),
                     New(node_init_leaf(leaf_nodes[2].index,
                                        leaf_nodes[2].bounds)) >>]

\* aabb_node_t::init(leaf_nodes) for three leaves or more: the leaves are
\* split about the centre of their midpoints, and each side is built
node_init_split(leaf_nodes) ==
    LET children(bounds, parts) ==
            [index |-> -1, bounds |-> bounds,
             children |-> <<New(node_init(parts[1])), New(node_init(parts[2]))>>]
        split(acc, dim_to_split) ==
            children(acc.bounds,
                     Partition(leaf_nodes, 1, dim_to_split,
                               center(acc.midpoints, dim_to_split), <<>>, <<>>))
        from(acc) == split(acc, DimToSplit(acc.midpoints, 1, I(0), 1))
    IN from(BoundsOf(leaf_nodes, 1,
                     [bounds |-> aabb_reset, midpoints |-> aabb_reset]))

\* node_init with the loop over two leaves stopping after the first
node_init_one_child(leaf_nodes) ==
    LET num == Len(leaf_nodes)
    IN IF num = 0 THEN aabb_node_t
       ELSE IF num = 1
       THEN node_init_leaf(leaf_nodes[1].index, leaf_nodes[1].bounds)
       ELSE IF num = 2
       THEN [index |-> -1,
             bounds |-> expand_to_box(aabb_reset, leaf_nodes[1].bounds),
             children |-> << New(node_init_leaf(leaf_nodes[1].index,
                                                leaf_nodes[1].bounds)),
                             NULL >>]
       ELSE node_init_split(leaf_nodes)

\* node_init with the bounds of two leaves taken from the first leaf alone
node_init_first_bounds(leaf_nodes) ==
    LET num == Len(leaf_nodes)
    IN IF num = 0 THEN aabb_node_t
       ELSE IF num = 1
       THEN node_init_leaf(leaf_nodes[1].index, leaf_nodes[1].bounds)
       ELSE IF num = 2
       THEN [node_init_pair(leaf_nodes) EXCEPT
                !.bounds = expand_to_box(aabb_reset, leaf_nodes[1].bounds)]
       ELSE node_init_split(leaf_nodes)

\* aabb_node_t::init(leaf_nodes)
node_init(leaf_nodes) ==
    LET num == Len(leaf_nodes)
    IN IF num = 0 THEN aabb_node_t
       ELSE IF num = 1
       THEN node_init_leaf(leaf_nodes[1].index, leaf_nodes[1].bounds)
       ELSE IF num = 2 THEN node_init_pair(leaf_nodes)
       ELSE node_init_split(leaf_nodes)

\* the leaves aabb_tree_t::init makes: one per element with a shape
RECURSIVE LeafNodes(_, _)
LeafNodes(elems, i) ==
    IF i >= Len(elems) THEN <<>>
    ELSE IF elems[i + 1].shape = NullShape THEN LeafNodes(elems, i + 1)
    ELSE <<node_init_leaf(i, aabb_apply(get_bounds(elems[i + 1].shape),
                                        elems[i + 1].transform))>>
         \o LeafNodes(elems, i + 1)

\* tree_init with the loop over the elements starting at the second one
tree_init_from_second(elems) == New(node_init(LeafNodes(elems, 1)))

\* aabb_tree_t::init: the new root
tree_init(elems) == New(node_init(LeafNodes(elems, 0)))

\* aabb_node_t::trace; st carries the in-out parameters i_best, t_best and
\* n_best, and the list of the elements whose intersects was called
RECURSIVE node_trace(_, _, _, _, _, _, _)

already_found_never(st, shortcircuit, elems) == FALSE

\* the edge case at the entry of trace: a solution is already found and the
\* search is short-circuiting
already_found(st, shortcircuit, elems) ==
    shortcircuit /\ st.i_best < Len(elems)

with_call(st, i) == [st EXCEPT !.calls = Append(@, i)]
\* a call of aabb_node_t::trace on node is made: the node and the t_best it
\* is called with are put on record
with_visit(st, node) ==
    [st EXCEPT !.visits = Append(@, [node |-> node, t_best |-> st.t_best])]

\* node_trace starting with the child that the ray enters later
node_trace_far_first(node, st, ray, shortcircuit, t_min, t_max, elems) ==
    LET leaf(res) ==
            IF ~res.hit THEN with_call(st, node.index)
            ELSE IF Lt(res.t, st.t_best)
            THEN [with_call(st, node.index) EXCEPT
                     !.i_best = node.index, !.t_best = res.t, !.n_best = res.n]
            ELSE with_call(st, node.index)
        down(i, s) ==
            node_trace(Deref(node.children[i]),
                       with_visit(s, Deref(node.children[i])), ray,
                       shortcircuit, t_min, t_max, elems)
        far(st1, child_t, i_far) ==
            IF Lt(st1.t_best, child_t[i_far]) THEN st1 ELSE down(i_far, st1)
        both(child_t, i_close) ==
            far(down(i_close, st), child_t, 3 - i_close)
        children(child_intersect, child_t) ==
            IF child_intersect[1] /\ child_intersect[2]
            THEN both(child_t, IF Lt(child_t[1], child_t[2]) THEN 2 ELSE 1)
            ELSE IF child_intersect[1] THEN down(1, st)
            ELSE IF child_intersect[2] THEN down(2, st)
            ELSE st
        boxes(box) ==
            children(AsTuple([i \in 1..NUM_CHILDREN_PER_NODE |->
                                 box[i].hit /\ Lt(box[i].t, st.t_best)]),
                     AsTuple([i \in 1..NUM_CHILDREN_PER_NODE |-> box[i].t]))
    IN IF already_found(st, shortcircuit, elems) THEN st
       ELSE IF isleaf(node)
       THEN IF node.index < 0 THEN st
            ELSE leaf(element_intersects(elems[node.index + 1], ray,
                                         t_min, t_max))
       ELSE boxes(AsTuple([i \in 1..NUM_CHILDREN_PER_NODE |->
                     IF node.children[i] = NULL THEN NoHit
                     ELSE aabb_intersects(Deref(node.children[i]).bounds,
                                          ray, t_min, t_max)]))

node_trace(node, st, ray, shortcircuit, t_min, t_max, elems) ==
    LET \* a leaf: the better of st and the result of its element
        leaf(res) ==
            IF ~res.hit THEN with_call(st, node.index)
            ELSE IF Lt(res.t, st.t_best)
            THEN [with_call(st, node.index) EXCEPT
                     !.i_best = node.index, !.t_best = res.t, !.n_best = res.n]
            ELSE with_call(st, node.index)
        down(i, s) ==
            node_trace(Deref(node.children[i]),
                       with_visit(s, Deref(node.children[i])), ray,
                       shortcircuit, t_min, t_max, elems)
        \* the far child, after the close one gave st1
        far(st1, child_t, i_far) ==
            IF Lt(st1.t_best, child_t[i_far]) THEN st1 ELSE down(i_far, st1)
        both(child_t, i_close) ==
            far(down(i_close, st), child_t, 3 - i_close)
        children(child_intersect, child_t) ==
            IF child_intersect[1] /\ child_intersect[2]
            THEN both(child_t, IF Lt(child_t[1], child_t[2]) THEN 1 ELSE 2)
            ELSE IF child_intersect[1] THEN down(1, st)
            ELSE IF child_intersect[2] THEN down(2, st)
            ELSE st
        boxes(box) ==
            children(AsTuple([i \in 1..NUM_CHILDREN_PER_NODE |->
                                 box[i].hit /\ Lt(box[i].t, st.t_best)]),
                     AsTuple([i \in 1..NUM_CHILDREN_PER_NODE |-> box[i].t]))
    IN IF already_found(st, shortcircuit, elems) THEN st
       ELSE IF isleaf(node)
       THEN IF node.index < 0 THEN st
            ELSE leaf(element_intersects(elems[node.index + 1], ray,
                                         t_min, t_max))
       ELSE boxes(AsTuple([i \in 1..NUM_CHILDREN_PER_NODE |->
                     IF node.children[i] = NULL THEN NoHit
                     ELSE aabb_intersects(Deref(node.children[i]).bounds,
                                          ray, t_min, t_max)]))

NoNormal == V(0, 0, 0)

\* tree_trace with i_best initialised to the first element
tree_trace_from_zero(root, ray, shortcircuit, t_min, t_max, elems) ==
    LET st0 == [i_best |-> 0, t_best |-> t_max, n_best |-> NoNormal,
                calls |-> <<>>, visits |-> <<>>]
    IN IF root = NULL THEN st0
       ELSE node_trace(Deref(root), with_visit(st0, Deref(root)), ray,
                       shortcircuit, t_min, t_max, elems)

\* aabb_tree_t::trace
tree_trace(root, ray, shortcircuit, t_min, t_max, elems) ==
    LET st0 == [i_best |-> Len(elems), t_best |-> t_max, n_best |-> NoNormal,
                calls |-> <<>>, visits |-> <<>>]
    IN IF root = NULL THEN st0
       ELSE node_trace(Deref(root), with_visit(st0, Deref(root)), ray,
                       shortcircuit, t_min, t_max, elems)

\* scene_t::brute_force_search
RECURSIVE brute_loop(_, _, _, _, _, _)
brute_loop(elems, i, st, ray, shortcircuit, t_min) ==
    LET best(res) ==
            [with_call(st, i) EXCEPT
                !.i_best = i, !.t_best = res.t, !.n_best = res.n]
        step(res) ==
            IF ~res.hit
            THEN brute_loop(elems, i + 1, with_call(st, i), ray, shortcircuit,
                            t_min)
            ELSE IF shortcircuit THEN best(res)
            ELSE brute_loop(elems, i + 1, best(res), ray, shortcircuit, t_min)
    IN IF i >= Len(elems) THEN st
       ELSE step(element_intersects(elems[i + 1], ray, t_min, st.t_best))

brute_force_search(elems, ray, shortcircuit, t_min, t_max) ==
    brute_loop(elems, 0,
               [i_best |-> Len(elems), t_best |-> t_max, n_best |-> NoNormal,
                calls |-> <<>>],
               ray, shortcircuit, t_min)

(***************************************************************************)
(* color_t, light_t and phong_shader_t                                     *)
(***************************************************************************)
\* color_t: three channels; + and * act per channel
Black == V(0, 0, 0)
color_add(a, b) == <<Add(a[1], b[1]), Add(a[2], b[2]), Add(a[3], b[3])>>
color_mul(a, b) == <<Mul(a[1], b[1]), Mul(a[2], b[2]), Mul(a[3], b[3])>>
color_scale(a, k) == <<Mul(a[1], k), Mul(a[2], k), Mul(a[3], k)>>

is_point(light) ==
    light.type \in {"POINT_LIGHT_NO_FALLOFF", "POINT_LIGHT_LINEAR_FALLOFF",
                    "POINT_LIGHT_QUADRATIC_FALLOFF"}
is_ambient_never(light) == FALSE

is_ambient(light) == light.type = "AMBIENT_LIGHT"

get_direction(light, p) ==
    IF is_point(light) THEN Normalize(VSub(p, light.v)) ELSE light.v

\* #define EPSILON 0.001 of scene.cpp
EPSILON == Q(1, 1000)
\* FLT_MAX of <float.h>: a finite value above every distance of the model
FLT_MAX == I(1000000)

get_distance(light, p) ==
    IF is_point(light) THEN Norm(VSub(p, light.v))
    ELSE IF light.type = "DIRECTIONAL_LIGHT" THEN FLT_MAX
    ELSE I(0)

get_color_at(light, p) ==
    IF light.type = "POINT_LIGHT_LINEAR_FALLOFF"
    THEN color_scale(light.color, Div(I(1), get_distance(light, p)))
    ELSE IF light.type = "POINT_LIGHT_QUADRATIC_FALLOFF"
    THEN color_scale(light.color,
                     Div(I(1), Mul(get_distance(light, p), get_distance(light, p))))
    ELSE light.color

\* powf(x, p) for the whole exponents the model uses
RECURSIVE Pow(_, _)
Pow(x, k) == IF k = 0 THEN I(1) ELSE Mul(x, Pow(x, k - 1))

\* phong_shader_t::compute_phong(N, V, L, I)
shader_compute_phong(shader, N, Vw, L, Ic) ==
    LET with(lndot) ==
            LET R == VSub(L, VScale(Mul(I(2), lndot), N))
                Ca == shader.ka
                Cd == color_add(Ca, color_scale(shader.kd,
                                                Max(Neg(lndot), I(0))))
                Cs == color_add(Cd, color_scale(shader.ks,
                                                Pow(Max(Dot(R, Vw), I(0)),
                                                    shader.p)))
            IN color_mul(Cs, Ic)
    IN with(Dot(L, N))

\* element_t::compute_ambient, compute_phong and compute_normal_shading
compute_ambient(e, light) == color_mul(e.shader.ka, light.color)
compute_phong(e, P, N, Vw, light) ==
    shader_compute_phong(e.shader, N, Vw, get_direction(light, P),
                         get_color_at(light, P))
compute_normal_shading(N) ==
    << Mul(Q(1, 2), Add(N[1], I(1))), Mul(Q(1, 2), Add(N[2], I(1))),
       Mul(Q(1, 2), Add(N[3], I(1))) >>

(***************************************************************************)
(* camera_t: the eye and the four corners of the viewing plane             *)
(***************************************************************************)
\* camera_t::camera_t()
DefaultEye == V(0, 0, 3)
DefaultPlane ==
    [UL |-> V(-1, 1, 0), UR |-> V(1, 1, 0), LL |-> V(-1, -1, 0), LR |-> V(1, -1, 0)]

\* camera_t::get_ray(ray, u, v): the ray from the eye through the point of
\* the viewing plane that the bilinear interpolation of the corners gives
get_ray(e, pl, u, v) ==
    LET through(p) == ray_set(e, VSub(p, e))
    IN through(VAdd(VScale(Sub(I(1), u),
                           VAdd(VScale(v, pl.LL), VScale(Sub(I(1), v), pl.UL))),
                    VScale(u,
                           VAdd(VScale(v, pl.LR), VScale(Sub(I(1), v), pl.UR)))))

(***************************************************************************)
(* State                                                                   *)
(***************************************************************************)
VARIABLES
    elements,               \* scene_t::elements
    lights,                 \* scene_t::lights
    eye,                    \* camera_t::eye of scene_t::camera
    recursion_depth,        \* scene_t::recursion_depth
    render_normal_shading,  \* scene_t::render_normal_shading
    use_brute_force_search, \* scene_t::use_brute_force_search
    tree,         \* aabb_tree_t::root of scene_t::tree: NULL or New(root)
    pc,           \* "idle"; "searched" or "traced" while outputs are live
    query,        \* the arguments of the search in progress
    res_tree,     \* the outputs of aabb_tree_t::trace for query
    res_brute,    \* the outputs of scene_t::brute_force_search for query
    call,         \* the arguments of the scene_t::trace call in progress
    result,       \* what that call returned and did
    memo,         \* an earlier scene_t::trace call and the color it returned
    xf,           \* two transform_t objects
    xf_ops,       \* the number of mutator calls made on them
    aabb,         \* an aabb_t object: its bounds
    viewplane,    \* camera_t::UL, UR, LL and LR of scene_t::camera
    cam_ray,      \* the arguments and the ray of the last camera_t::get_ray
    the_shape,    \* a shape_t object: a sphere_t or a triangle_t
    shape_hit,    \* the arguments and the outputs of its last intersects
    the_element,  \* an element_t object
    element_hit,  \* the arguments and the outputs of its last intersects
    parser,       \* a parser_t::read call: its position, locals and status
    process,      \* a run of main: its input files and its exit code
    the_leaves,   \* the leaf nodes given to aabb_node_t::init
    the_node,     \* the aabb_node_t that init was called on: NULL or New
    sampler,      \* the sampler_t of main: its indices and sizes
    sampled,      \* main's rendering loop: the calls of next and the last outputs
    heap,         \* the shapes made by new: how often each was deleted
    owner         \* a scene_t: the shape pointers of its vector of elements

scene_vars == <<elements, lights, eye, recursion_depth, render_normal_shading,
                use_brute_force_search, tree>>
search_vars == <<query, res_tree, res_brute>>
trace_vars == <<call, result, memo>>
xf_vars == <<xf, xf_ops>>
box_vars == <<aabb>>
\* the objects of the specifications of single classes
cam_vars == <<viewplane, cam_ray>>
shape_vars == <<the_shape, shape_hit, the_element, element_hit>>
io_vars == <<parser, process>>
node_vars == <<the_leaves, the_node>>
run_vars == <<sampler, sampled>>
mem_vars == <<heap, owner>>
unit_vars == <<box_vars, cam_vars, shape_vars, io_vars, node_vars, run_vars,
              mem_vars>>
\* the scene, the searches, the traces and the transforms
world_vars == <<scene_vars, pc, search_vars, trace_vars, xf_vars>>
vars == <<world_vars, unit_vars>>

(***************************************************************************)
(* scene_t::trace(ray, r).  The value is the color returned together with  *)
(* a record of what the call did: `levels` has one entry per invocation,   *)
(* outermost first.  An entry of kind                                      *)
(*   "base"   is an invocation with r < 0, which returns at once;          *)
(*   "miss"   made the search for the nearest hit and found nothing;       *)
(*   "debug"  returned the normal shading of the hit;                      *)
(*   "shaded" went through the lights, each leaving an entry in `lit`,     *)
(*            and made the recursive call for the reflection.              *)
(***************************************************************************)
\* the search scene_t::trace makes: the linear scan or the tree
search(ray, shortcircuit, t_min, t_max) ==
    IF use_brute_force_search
    THEN brute_force_search(elements, ray, shortcircuit, t_min, t_max)
    ELSE tree_trace(tree, ray, shortcircuit, t_min, t_max, elements)

nearest_hit(ray) == search(ray, FALSE, EPSILON, FLT_MAX)

shadow_ray(light, pos) == ray_set(pos, VNeg(get_direction(light, pos)))

shadow_hit(light, pos) ==
    search(shadow_ray(light, pos), TRUE, EPSILON, get_distance(light, pos))

\* what a light adds: c to the color unless it is shadowed, and its entry
light_entry(acc, kind, c) ==
    [color |-> IF kind = "shadowed" THEN acc.color ELSE color_add(acc.color, c),
     lit |-> Append(acc.lit, [kind |-> kind, added |-> c])]

\* the loop over the lights: the color accumulated and one entry per light
RECURSIVE light_loop(_, _, _, _, _, _)
light_loop(j, acc, i_best, pos, normal_best, viewdir) ==
    IF j > Len(lights) THEN acc
    ELSE light_loop(j + 1,
                    IF is_ambient(lights[j])
                    THEN light_entry(acc, "ambient",
                                     compute_ambient(elements[i_best + 1],
                                                     lights[j]))
                    ELSE IF shadow_hit(lights[j], pos).i_best # Len(elements)
                    THEN light_entry(acc, "shadowed", Black)
                    ELSE light_entry(acc, "lit",
                                     compute_phong(elements[i_best + 1], pos,
                                                   normal_best, viewdir,
                                                   lights[j])),
                    i_best, pos, normal_best, viewdir)

RECURSIVE scene_trace(_, _)

\* the return of scene_t::trace at the base case
scene_trace_base(ray, r) ==
    [color |-> Black, levels |-> <<[kind |-> "base", r |-> r, ray |-> ray]>>]

\* scene_t::trace from the hit best at pos: the colors of the lights and
\* of sub, the recursive call for the reflected ray
scene_trace_shade(ray, r, best, pos, viewdir) ==
    LET sum(shade, bounce, reflected, sub) ==
            [color |-> color_add(shade.color, reflected),
             levels |-> <<[kind |-> "shaded", r |-> r, ray |-> ray,
                           i_best |-> best.i_best,
                           t_best |-> best.t_best,
                           normal_best |-> best.n_best,
                           pos |-> pos, viewdir |-> viewdir,
                           lit |-> shade.lit, bounce |-> bounce,
                           reflected |-> reflected]>>
                        \o sub.levels]
        reflect(shade, bounce, sub) ==
            sum(shade, bounce,
                color_mul(elements[best.i_best + 1].shader.kr, sub.color), sub)
        recurse(shade, bounce) ==
            reflect(shade, bounce, scene_trace(bounce, r - 1))
    IN recurse(light_loop(1, [color |-> Black, lit |-> <<>>],
                          best.i_best, pos, best.n_best, viewdir),
               ray_set(pos,
                       VAdd(VNeg(viewdir),
                            VScale(Mul(I(2), Dot(viewdir, best.n_best)),
                                   best.n_best))))

scene_trace_hit_lit(ray, r, best) ==
    IF best.i_best = Len(elements)
    THEN [color |-> Black,
          levels |-> <<[kind |-> "miss", r |-> r, ray |-> ray]>>]
    ELSE scene_trace_shade(ray, r, best, point_at(ray, best.t_best),
                           Normalize(VSub(eye, point_at(ray, best.t_best))))

\* scene_t::trace after the search for the nearest hit gave best
scene_trace_hit(ray, r, best) ==
    IF best.i_best = Len(elements)
    THEN [color |-> Black,
          levels |-> <<[kind |-> "miss", r |-> r, ray |-> ray]>>]
    ELSE IF render_normal_shading
    THEN [color |-> compute_normal_shading(best.n_best),
          levels |-> <<[kind |-> "debug", r |-> r, ray |-> ray,
                        i_best |-> best.i_best,
                        normal_best |-> best.n_best]>>]
    ELSE scene_trace_shade(ray, r, best, point_at(ray, best.t_best),
                           Normalize(VSub(eye, point_at(ray, best.t_best))))

\* scene_t::trace past the base case
scene_trace_search(ray, r) == scene_trace_hit(ray, r, nearest_hit(ray))

\* scene_trace with the base case one level late
scene_trace_late_base(ray, r) ==
    IF r < -1 THEN scene_trace_base(ray, r) ELSE scene_trace_search(ray, r)

scene_trace(ray, r) ==
    IF r < 0 THEN scene_trace_base(ray, r) ELSE scene_trace_search(ray, r)

(***************************************************************************)
(* The bounded inputs of the model                                         *)
(***************************************************************************)
MaxElems == 3
MaxDepth == 2
MaxXfOps == 3

IdentityTransform == reset(NULL)

\* phong_shader_t(), and a shader with every coefficient set
DefaultShader ==
    [ka |-> V(0, 0, 0), kd |-> V(0, 0, 0), ks |-> V(0, 0, 0),
     kr |-> V(0, 0, 0), p |-> 1]
ShinyShader ==
    [ka |-> <<Q(1, 10), Q(1, 10), Q(1, 10)>>, kd |-> <<Q(1, 2), I(0), I(0)>>,
     ks |-> <<I(0), Q(1, 4), I(0)>>, kr |-> <<Q(1, 2), Q(1, 2), Q(1, 2)>>,
     p |-> 2]

Element(shape, transform, shader) ==
    [shape |-> shape, transform |-> transform, shader |-> shader]

\* a unit sphere centred on the x axis at x = 3
SphereOnAxis ==
    Element(sphere_t(I(3), I(0), I(0), I(1)), IdentityTransform, DefaultShader)
\* a triangle of the plane x = 0 moved to the plane x = 5, around the x axis
Wall(shader) ==
    Element(triangle_t(V(0, -1, -1), V(0, 3, -1), V(0, -1, 3)),
            set_translation(NULL, I(5), I(0), I(0)), shader)
\* a triangle scaled by two into the plane x = 2, around the x axis
ScaledTriangle ==
    Element(triangle_t(V(1, -1, -1), V(1, 2, -1), V(1, -1, 2)),
            set_scale(NULL, I(2), I(2), I(2)), DefaultShader)
\* an element without a shape
NoShape == Element(NullShape, IdentityTransform, DefaultShader)

\* the elements a scene of Spec is made of
ElementChoices == { SphereOnAxis, Wall(DefaultShader), ScaledTriangle, NoShape }

\* the searches, as <<ray, t_min, t_max>>: along the x axis both ways, once
\* with the wall exactly at t_max; along the side of the box of SphereOnAxis,
\* touching the sphere; touching the sphere at t_max and behind the origin of
\* the ray; and away from everything
Queries ==
    { <<ray_set(V(0, 0, 0), V(1, 0, 0)), EPSILON, FLT_MAX>>,
      <<ray_set(V(0, 0, 0), V(1, 0, 0)), EPSILON, I(5)>>,
      <<ray_set(V(9, 0, 0), V(-1, 0, 0)), EPSILON, FLT_MAX>>,
      <<ray_set(V(2, -4, 0), V(0, 1, 0)), EPSILON, FLT_MAX>>,
      <<ray_set(V(4, 0, 5), V(0, 0, -1)), EPSILON, I(5)>>,
      <<ray_set(V(4, 0, -2), V(0, 0, -1)), EPSILON, FLT_MAX>>,
      <<ray_set(V(0, 0, 0), V(0, 0, 1)), EPSILON, FLT_MAX>> }

NoQuery == [ray |-> ray_set(V(0, 0, 0), V(1, 0, 0)), shortcircuit |-> FALSE,
            t_min |-> I(0), t_max |-> I(0)]
NoResult == [i_best |-> -1, t_best |-> I(0), n_best |-> NoNormal,
             calls |-> <<>>, visits |-> <<>>]
NoCall == [ray |-> ray_set(V(0, 0, 0), V(1, 0, 0)), r |-> 0]
NoTrace == [color |-> Black, levels |-> <<>>]
NoMemo == [valid |-> FALSE, ray |-> ray_set(V(0, 0, 0), V(1, 0, 0)), r |-> 0,
           color |-> Black]

\* no file, and a parser_t before read is called
NoFile == [open |-> FALSE, lines |-> <<>>]
NoParser == [pc |-> "idle", file |-> NoFile, lines |-> <<>>, ret |-> 0,
             shader |-> DefaultShader, transform |-> IdentityTransform,
             log |-> <<>>]

\* no run of main
NoProcess == [pc |-> "idle", infiles |-> <<>>, code |-> 0]

NoShapeHit == [valid |-> FALSE, ray |-> ray_set(V(0, 0, 0), V(1, 0, 0)),
               t_min |-> I(0), t_max |-> I(0), res |-> NoHit]

NoRay == [valid |-> FALSE, u |-> I(0), v |-> I(0),
          ray |-> ray_set(V(0, 0, 0), V(1, 0, 0))]

(***************************************************************************)
(* sampler_t.  The values of rand_table, and the coordinates u and v made  *)
(* of them, are left out; the indices of the table that next reads are     *)
(* kept.  The sizes are small enough for size_t never to wrap.             *)
(***************************************************************************)
TABLE_SIZE == 10006

\* a sampler_t on which init was not called yet
NoSampler ==
    [image_width |-> 0, image_height |-> 0, num_pixels |-> 0,
     samples_per_pixel_dir |-> 0, samples_per_pixel |-> 0, next_rand |-> 0,
     curr_pixel |-> 0, curr_pixel_sample |-> 0]

\* main before it calls sampler_t::init
NoSamples ==
    [started |-> FALSE, w |-> 0, h |-> 0, n |-> 0, calls |-> 0, c |-> 0,
     r |-> 0, rand |-> 0]

\* sampler_t::init(w, h, n)
sampler_init(w, h, n) ==
    [image_width |-> w, image_height |-> h, num_pixels |-> w * h,
     samples_per_pixel_dir |-> n, samples_per_pixel |-> n * n,
     next_rand |-> 0, curr_pixel |-> 0, curr_pixel_sample |-> 0]

\* sampler_t::is_done()
is_done(s) == s.curr_pixel >= s.num_pixels

\* the outputs r and c of sampler_t::next
next_r(s) == s.curr_pixel \div s.image_width
next_c(s) == s.curr_pixel % s.image_width

\* sampler_t::next: the step to the next sample of the pixel or to the next
\* pixel
next_sample(s) ==
    IF s.curr_pixel_sample + 1 >= s.samples_per_pixel
    THEN [s EXCEPT !.curr_pixel_sample = 0, !.curr_pixel = @ + 1]
    ELSE [s EXCEPT !.curr_pixel_sample = @ + 1]

\* sampler_t::next without the return of next_rand to the start of the table
sampler_next_unwrapped(s) == [next_sample(s) EXCEPT !.next_rand = @ + 2]

\* sampler_t::next: the sampler after the call
sampler_next(s) ==
    [next_sample(s) EXCEPT
        !.next_rand = IF @ + 2 >= TABLE_SIZE THEN 0 ELSE @ + 2]

(***************************************************************************)
(* The shapes of a scene_t.  A shape made by new is a place 1, 2, ... of   *)
(* the heap, which holds the number of times delete was applied to it; 0   *)
(* is the null pointer.  A scene_t is the shape pointers of its vector of  *)
(* elements, the capacity of the vector, whether ~scene_t has run, and the *)
(* number of elements that were destroyed while they held a shape.         *)
(***************************************************************************)
scene_t == [alive |-> TRUE, elements |-> <<>>, capacity |-> 0,
            destroyed |-> 0]

\* delete p
delete(hp, p) == IF p = 0 THEN hp ELSE [hp EXCEPT ![p] = @ + 1]

\* a destructor of element_t that deletes the shape p of the element
element_destroy_deleting(hp, p) == delete(hp, p)

\* element_t::~element_t on an element whose shape is p
element_destroy(hp, p) == hp

\* the destructor on every element of a storage
RECURSIVE destroy_range(_, _)
destroy_range(hp, ps) ==
    IF ps = <<>> THEN hp
    ELSE destroy_range(element_destroy(hp, Head(ps)), Tail(ps))

\* std::vector<element_t>::resize(size() + 1): when the storage is full the
\* elements are copied to a new storage and the old ones are destroyed;
\* a default element_t, of no shape, is copied to the end and destroyed
vector_resize(hp, ps, full) ==
    element_destroy(IF full THEN destroy_range(hp, ps) ELSE hp, 0)

\* the loop of scene_t::~scene_t: each shape that is not NULL is deleted
RECURSIVE delete_shapes(_, _)
delete_shapes(hp, ps) ==
    IF ps = <<>> THEN hp
    ELSE delete_shapes(IF Head(ps) = 0 THEN hp ELSE delete(hp, Head(ps)),
                       Tail(ps))

\* scene_t::~scene_t: the loop, which leaves every shape pointer NULL, and
\* elements.clear()
scene_destroy(hp, ps) ==
    destroy_range(delete_shapes(hp, ps), [i \in 1..Len(ps) |-> 0])

(***************************************************************************)
(* Spec: a scene is filled, its tree is built, and searches are made       *)
(***************************************************************************)
Init ==
    /\ elements = <<>>
    /\ lights = <<>>
    /\ eye = DefaultEye
    /\ recursion_depth = 0
    /\ render_normal_shading = FALSE
    /\ use_brute_force_search = FALSE
    /\ tree = NULL
    /\ pc = "idle"
    /\ query = NoQuery
    /\ res_tree = NoResult
    /\ res_brute = NoResult
    /\ call = NoCall
    /\ result = NoTrace
    /\ memo = NoMemo
    /\ xf = <<IdentityTransform, IdentityTransform>>
    /\ xf_ops = 0
    /\ aabb = aabb_reset
    /\ viewplane = DefaultPlane
    /\ cam_ray = NoRay
    /\ the_shape = NullShape
    /\ shape_hit = NoShapeHit
    /\ the_element = NoShape
    /\ element_hit = NoShapeHit
    /\ parser = NoParser
    /\ process = NoProcess
    /\ the_leaves = <<>>
    /\ the_node = NULL
    /\ sampler = NoSampler
    /\ sampled = NoSamples
    /\ heap = <<>>
    /\ owner = scene_t

\* scene_t::add(shape, transform, shader), before the tree is built
add(e) ==
    /\ pc = "idle"
    /\ tree = NULL
    /\ Len(elements) < MaxElems
    /\ elements' = Append(elements, e)
    /\ UNCHANGED <<lights, eye, recursion_depth, render_normal_shading,
                   use_brute_force_search, tree, pc, search_vars, trace_vars,
                   xf_vars,
                   unit_vars>>

\* aabb_tree_t::init(elements)
TreeInit ==
    /\ pc = "idle"
    /\ tree = NULL
    /\ tree' = tree_init(elements)
    /\ UNCHANGED <<elements, lights, eye, recursion_depth,
                   render_normal_shading, use_brute_force_search, pc,
                   search_vars, trace_vars, xf_vars,
                   unit_vars>>

\* aabb_tree_t::clear()
TreeClear ==
    /\ pc = "idle"
    /\ tree # NULL
    /\ tree' = NULL
    /\ UNCHANGED <<elements, lights, eye, recursion_depth,
                   render_normal_shading, use_brute_force_search, pc,
                   search_vars, trace_vars, xf_vars,
                   unit_vars>>

\* one search of the scene, by aabb_tree_t::trace and by the linear scan
Search(ray, shortcircuit, t_min, t_max) ==
    /\ pc = "idle"
    /\ pc' = "searched"
    /\ query' = [ray |-> ray, shortcircuit |-> shortcircuit,
                 t_min |-> t_min, t_max |-> t_max]
    /\ res_tree' = tree_trace(tree, ray, shortcircuit, t_min, t_max, elements)
    /\ res_brute' = brute_force_search(elements, ray, shortcircuit, t_min, t_max)
    /\ UNCHANGED <<scene_vars, trace_vars, xf_vars,
                   unit_vars>>

\* the caller is done with the outputs of the search
SearchReturn ==
    /\ pc = "searched"
    /\ pc' = "idle"
    /\ query' = NoQuery
    /\ res_tree' = NoResult
    /\ res_brute' = NoResult
    /\ UNCHANGED <<scene_vars, trace_vars, xf_vars,
                   unit_vars>>

Next ==
    \/ \E e \in ElementChoices : add(e)
    \/ TreeInit
    \/ TreeClear
    \/ \E q \in Queries, sc \in BOOLEAN : Search(q[1], sc, q[2], q[3])
    \/ SearchReturn

Spec == Init /\ [][Next]_vars

(***************************************************************************)
(* SpecTrace: a scene that scene_t::init has loaded is traced              *)
(***************************************************************************)
\* a unit sphere behind the eye, centred on the x axis at x = -3
SphereBehind ==
    Element(sphere_t(I(0), I(0), I(0), I(1)),
            set_translation(NULL, I(-3), I(0), I(0)), ShinyShader)
\* a unit sphere above the point (5, 0, 0) of the wall
SphereAbove ==
    Element(sphere_t(I(5), I(3), I(0), I(1)), IdentityTransform, DefaultShader)
\* a unit sphere that touches the plane of the wall at (5, 3, 0)
SphereTouching ==
    Element(sphere_t(I(4), I(3), I(0), I(1)), IdentityTransform, DefaultShader)

\* a sphere of radius 5 that the x axis enters at (3/2, 0, 0), where its
\* normal is (-3/5, 4/5, 0): a ray along the x axis is reflected off the axis
MirrorSphere ==
    Element(sphere_t(Q(9, 2), I(-4), I(0), I(5)), IdentityTransform, ShinyShader)
\* a triangle of the plane y = 12, above the sphere
Ceiling ==
    Element(triangle_t(V(0, 12, -5), V(0, 12, 5), V(20, 12, 0)),
            IdentityTransform, ShinyShader)

Light(type, v, color) == [type |-> type, v |-> v, color |-> color]
AmbientLight == Light("AMBIENT_LIGHT", V(0, 0, 0), <<Q(1, 5), Q(1, 5), Q(1, 5)>>)
\* shines down the y axis
DirectionalLight == Light("DIRECTIONAL_LIGHT", V(0, -1, 0), V(1, 1, 1))
\* on the x axis, behind the wall
PointLight == Light("POINT_LIGHT_LINEAR_FALLOFF", V(8, 0, 0), V(1, 1, 1))

Scene(els, lts, debug) == [elements |-> els, lights |-> lts, debug |-> debug]

\* the scenes of SpecTrace
TraceScenes ==
    { Scene(<<>>, <<AmbientLight>>, FALSE),
      Scene(<<Wall(ShinyShader), SphereBehind>>,
            <<AmbientLight, DirectionalLight, PointLight>>, FALSE),
      Scene(<<Wall(ShinyShader), SphereAbove>>,
            <<DirectionalLight, AmbientLight>>, FALSE),
      Scene(<<Wall(ShinyShader), SphereTouching>>,
            <<DirectionalLight, AmbientLight>>, FALSE),
      Scene(<<SphereOnAxis, NoShape, SphereBehind, Wall(ShinyShader)>>,
            <<PointLight, AmbientLight>>, FALSE),
      Scene(<<Wall(ShinyShader), SphereBehind>>, <<AmbientLight>>, TRUE),
      Scene(<<MirrorSphere, Ceiling>>, <<AmbientLight>>, FALSE),
      Scene(<<SphereAbove>>, <<AmbientLight, PointLight>>, TRUE) }

\* the rays traced: from the eye along the x axis, both ways
TraceRays == { ray_set(V(0, 0, 0), V(1, 0, 0)), ray_set(V(0, 0, 0), V(-1, 0, 0)) }

\* the state scene_t::init leaves
InitTrace ==
    /\ \E sc \in TraceScenes :
          /\ elements = sc.elements
          /\ lights = sc.lights
          /\ render_normal_shading = sc.debug
          /\ tree = tree_init(sc.elements)
    /\ eye = V(0, 0, 0)
    /\ recursion_depth = MaxDepth
    /\ use_brute_force_search = FALSE
    /\ pc = "idle"
    /\ query = NoQuery
    /\ res_tree = NoResult
    /\ res_brute = NoResult
    /\ call = NoCall
    /\ result = NoTrace
    /\ memo = NoMemo
    /\ xf = <<IdentityTransform, IdentityTransform>>
    /\ xf_ops = 0
    /\ aabb = aabb_reset
    /\ viewplane = DefaultPlane
    /\ cam_ray = NoRay
    /\ the_shape = NullShape
    /\ shape_hit = NoShapeHit
    /\ the_element = NoShape
    /\ element_hit = NoShapeHit
    /\ parser = NoParser
    /\ process = NoProcess
    /\ the_leaves = <<>>
    /\ the_node = NULL
    /\ sampler = NoSampler
    /\ sampled = NoSamples
    /\ heap = <<>>
    /\ owner = scene_t

\* SceneTrace counting the levels down in scene_t::recursion_depth
SceneTraceCounting(ray, r) ==
    /\ pc = "idle"
    /\ pc' = "traced"
    /\ call' = [ray |-> ray, r |-> r]
    /\ result' = scene_trace(ray, IF r < recursion_depth THEN r ELSE recursion_depth)
    /\ recursion_depth' = IF recursion_depth >= 0 THEN recursion_depth - 1
                          ELSE recursion_depth
    /\ UNCHANGED <<elements, lights, eye, render_normal_shading,
                   use_brute_force_search, tree, search_vars, memo, xf_vars,
                   unit_vars>>

\* scene_t::trace(ray, r)
SceneTrace(ray, r) ==
    /\ pc = "idle"
    /\ pc' = "traced"
    /\ call' = [ray |-> ray, r |-> r]
    /\ result' = scene_trace(ray, r)
    /\ UNCHANGED <<scene_vars, search_vars, memo, xf_vars,
                   unit_vars>>

\* the caller takes the color; it may keep the first one to compare later
TraceReturn(keep) ==
    /\ pc = "traced"
    /\ pc' = "idle"
    /\ memo' = IF keep /\ ~memo.valid
               THEN [valid |-> TRUE, ray |-> call.ray, r |-> call.r,
                     color |-> result.color]
               ELSE memo
    /\ call' = NoCall
    /\ result' = NoTrace
    /\ UNCHANGED <<scene_vars, search_vars, xf_vars,
                   unit_vars>>

NextTrace ==
    \/ \E ray \in TraceRays, r \in -1..MaxDepth : SceneTrace(ray, r)
    \/ \E keep \in BOOLEAN : TraceReturn(keep)

SpecTrace == InitTrace /\ [][NextTrace]_vars

(***************************************************************************)
(* SpecXf: two transform_t objects go through their mutators               *)
(***************************************************************************)
Translations == { <<I(1), I(0), I(0)>>, <<I(0), I(2), I(-1)>> }
Scales == { <<I(2), I(2), I(2)>>, <<I(1), I(2), I(4)>> }
Rotations == { <<0, 0, 90>>, <<90, 0, 0>> }
Objects == {1, 2}

XfStep(k, t) ==
    /\ xf_ops < MaxXfOps
    /\ xf_ops' = xf_ops + 1
    /\ xf' = [xf EXCEPT ![k] = t]
    /\ UNCHANGED <<scene_vars, pc, search_vars, trace_vars, unit_vars>>

XfReset(k) == XfStep(k, reset(xf[k]))
XfSetTranslation(k, a) == XfStep(k, set_translation(xf[k], a[1], a[2], a[3]))
XfSetScale(k, a) == XfStep(k, set_scale(xf[k], a[1], a[2], a[3]))
XfSetRotation(k, a) == XfStep(k, set_rotation(xf[k], a[1], a[2], a[3]))
XfCat(k, o) == XfStep(k, cat(xf[k], xf[o]))
XfAssign(k, o) == XfStep(k, assign(xf[k], xf[o]))

NextXf ==
    \/ \E k \in Objects : XfReset(k)
    \/ \E k \in Objects, a \in Translations : XfSetTranslation(k, a)
    \/ \E k \in Objects, a \in Scales : XfSetScale(k, a)
    \/ \E k \in Objects, a \in Rotations : XfSetRotation(k, a)
    \/ \E k \in Objects, o \in Objects : XfCat(k, o)
    \/ \E k \in Objects, o \in Objects : XfAssign(k, o)

SpecXf == Init /\ [][NextXf]_vars

(***************************************************************************)
(* SpecBox: an aabb_t is reset and expanded to points and to boxes         *)
(***************************************************************************)
\* the coordinates of the points
Coords == {-1, 0, 2}
BoxPoints == { V(x, y, z) : x \in Coords, y \in Coords, z \in Coords }
\* the boxes expanded to: valid boxes, as get_bounds gives them
BoxArgs ==
    { << <<I(0), I(1)>>, <<I(0), I(1)>>, <<I(0), I(1)>> >>,
      << <<I(-2), I(-1)>>, <<I(0), I(1)>>, <<I(2), I(4)>> >> }

\* aabb_t::reset()
BoxReset ==
    /\ aabb' = aabb_reset
    /\ UNCHANGED <<world_vars, cam_vars, shape_vars, io_vars, node_vars,
                   run_vars, mem_vars>>

\* aabb_t::expand_to(const Eigen::Vector3f&)
BoxExpandToPoint(p) ==
    /\ aabb' = expand_to(aabb, p)
    /\ UNCHANGED <<world_vars, cam_vars, shape_vars, io_vars, node_vars,
                   run_vars, mem_vars>>

\* aabb_t::expand_to(const aabb_t&)
BoxExpandToBox(b) ==
    /\ aabb' = expand_to_box(aabb, b)
    /\ UNCHANGED <<world_vars, cam_vars, shape_vars, io_vars, node_vars,
                   run_vars, mem_vars>>

NextBox ==
    \/ BoxReset
    \/ \E p \in BoxPoints : BoxExpandToPoint(p)
    \/ \E b \in BoxArgs : BoxExpandToBox(b)

SpecBox == Init /\ [][NextBox]_vars

(***************************************************************************)
(* SpecCamera: a camera_t is set and asked for rays                        *)
(***************************************************************************)
Eyes == { DefaultEye, V(0, 0, -1), V(1, 2, 5) }
\* the default plane, a plane whose corners are at distance 3 of the
\* origin, and four corners that are not in one plane
Planes ==
    { DefaultPlane,
      [UL |-> V(-2, 1, 2), UR |-> V(2, 1, 2), LL |-> V(-2, -1, 2),
       LR |-> V(2, -1, 2)],
      [UL |-> V(-1, 1, 1), UR |-> V(1, 1, 0), LL |-> V(-1, -1, 0),
       LR |-> V(1, -1, 1)] }
\* the coordinates on the viewing plane
PlaneCoords == { I(0), Q(1, 4), Q(1, 2), I(1) }

\* camera_t::set(e, ul, ur, ll, lr)
CameraSet(e, pl) ==
    /\ eye' = e
    /\ viewplane' = pl
    /\ cam_ray' = NoRay
    /\ UNCHANGED <<elements, lights, recursion_depth, render_normal_shading,
                   use_brute_force_search, tree, pc, search_vars, trace_vars,
                   xf_vars, box_vars, shape_vars, io_vars, node_vars,
                   run_vars, mem_vars>>

\* camera_t::get_ray(ray, u, v)
CameraGetRay(u, v) ==
    /\ cam_ray' = [valid |-> TRUE, u |-> u, v |-> v,
                   ray |-> get_ray(eye, viewplane, u, v)]
    /\ UNCHANGED <<world_vars, box_vars, viewplane, shape_vars, io_vars, node_vars,
                   run_vars, mem_vars>>

NextCamera ==
    \/ \E e \in Eyes, pl \in Planes : CameraSet(e, pl)
    \/ \E u \in PlaneCoords, v \in PlaneCoords : CameraGetRay(u, v)

SpecCamera == Init /\ [][NextCamera]_vars

(***************************************************************************)
(* SpecShape: a sphere or a triangle is made and intersected with rays     *)
(***************************************************************************)
\* unit spheres at the origin, at x = 3 and at y = 1: every root of
\* their quadratics for the rays below is a fraction
Spheres ==
    { sphere_t(I(0), I(0), I(0), I(1)), sphere_t(I(3), I(0), I(0), I(1)),
      sphere_t(I(0), I(1), I(0), I(1)) }
\* triangles of the plane z = 0, counter-clockwise and clockwise as seen
\* from +z, and a triangle of the plane x = 1
Triangles ==
    { triangle_t(V(0, 0, 0), V(2, 0, 0), V(0, 2, 0)),
      triangle_t(V(0, 0, 0), V(0, 2, 0), V(2, 0, 0)),
      triangle_t(V(1, -1, -1), V(1, 3, -1), V(1, -1, 3)) }
\* rays along the x axis both ways, rays touching the unit spheres (the
\* first of them in the plane z = 0), a ray past them, rays down and up the
\* z axis through the inside, the edges, a vertex and the outside of the
\* triangles of z = 0, and a slanted ray
ShapeRays ==
    { ray_set(V(-5, 0, 0), V(1, 0, 0)), ray_set(V(9, 0, 0), V(-1, 0, 0)),
      ray_set(V(-5, 1, 0), V(1, 0, 0)), ray_set(V(4, 0, -2), V(0, 0, -1)),
      ray_set(V(-5, 0, 2), V(1, 0, 0)),
      ray_set(V(1, 0, 4), V(0, 0, -1)), ray_set(V(1, 1, 4), V(0, 0, -1)),
      ray_set(V(0, 0, 4), V(0, 0, -1)), ray_set(V(0, 1, -4), V(0, 0, 1)),
      ray_set(V(2, 2, 4), V(0, 0, -1)), ray_set(V(-1, 1, 4), V(0, 0, -1)),
      ray_set(V(-2, 0, 4), V(3, 0, -4)) }
\* the ranges, as <<t_min, t_max>>
ShapeRanges ==
    { <<EPSILON, FLT_MAX>>, <<I(4), I(6)>>, <<I(5), FLT_MAX>>,
      <<Q(9, 2), I(5)>>, <<EPSILON, I(3)>>, <<I(7), FLT_MAX>> }

\* the constructors of sphere_t and of triangle_t
ShapeNew(sh) ==
    /\ the_shape' = sh
    /\ shape_hit' = NoShapeHit
    /\ UNCHANGED <<world_vars, box_vars, cam_vars, the_element, element_hit,
                   io_vars, node_vars,
                   run_vars, mem_vars>>

\* shape_t::intersects(t, n, r, t_min, t_max) of the shape
ShapeIntersects(r, t_min, t_max) ==
    /\ the_shape # NullShape
    /\ shape_hit' = [valid |-> TRUE, ray |-> r, t_min |-> t_min,
                     t_max |-> t_max,
                     res |-> shape_intersects(the_shape, r, t_min, t_max)]
    /\ UNCHANGED <<world_vars, box_vars, cam_vars, the_shape, the_element,
                   element_hit, io_vars, node_vars,
                   run_vars, mem_vars>>

NextShape ==
    \/ \E sh \in Spheres \cup Triangles : ShapeNew(sh)
    \/ \E r \in ShapeRays, rg \in ShapeRanges :
          ShapeIntersects(r, rg[1], rg[2])

SpecShape == Init /\ [][NextShape]_vars

(***************************************************************************)
(* SpecElement: an element_t is made of a shape and a transform and        *)
(* intersected with rays                                                   *)
(***************************************************************************)
\* a unit sphere scaled by two about the origin
ScaledSphere ==
    Element(sphere_t(I(0), I(0), I(0), I(1)), set_scale(NULL, I(2), I(2), I(2)),
            DefaultShader)
\* a unit sphere moved to (-3, 0, 0)
MovedSphere ==
    Element(sphere_t(I(0), I(0), I(0), I(1)),
            set_translation(NULL, I(-3), I(0), I(0)), DefaultShader)
ElementsTried ==
    { NoShape, SphereOnAxis, MovedSphere, ScaledSphere, ScaledTriangle,
      Wall(DefaultShader) }
\* rays along the x axis both ways, a ray that touches SphereOnAxis behind
\* its origin, one that touches ScaledSphere, and a slanted ray through the
\* origin
ElementRays ==
    { ray_set(V(-5, 0, 0), V(1, 0, 0)), ray_set(V(9, 0, 0), V(-1, 0, 0)),
      ray_set(V(0, 0, 0), V(1, 0, 0)), ray_set(V(4, 0, -2), V(0, 0, -1)),
      ray_set(V(-5, 2, 0), V(1, 0, 0)), ray_set(V(-3, 0, 4), V(3, 0, -4)) }

\* element_t::element_t(shape, transform, shader)
ElementNew(e) ==
    /\ the_element' = e
    /\ element_hit' = NoShapeHit
    /\ UNCHANGED <<world_vars, box_vars, cam_vars, the_shape, shape_hit,
                   io_vars, node_vars,
                   run_vars, mem_vars>>

\* element_t::intersects(t, n, r, t_min, t_max) of the element
ElementIntersects(r, t_min, t_max) ==
    /\ element_hit' = [valid |-> TRUE, ray |-> r, t_min |-> t_min,
                       t_max |-> t_max,
                       res |-> element_intersects(the_element, r, t_min,
                                                  t_max)]
    /\ UNCHANGED <<world_vars, box_vars, cam_vars, the_shape, shape_hit,
                   the_element, io_vars, node_vars,
                   run_vars, mem_vars>>

NextElement ==
    \/ \E e \in ElementsTried : ElementNew(e)
    \/ \E r \in ElementRays, rg \in ShapeRanges :
          ElementIntersects(r, rg[1], rg[2])

SpecElement == Init /\ [][NextElement]_vars

(***************************************************************************)
(* SpecSampler: main initializes its sampler and calls next until is_done  *)
(***************************************************************************)
MaxSide == 3
MaxSamplesDir == 2
LongSide == 71

\* the widths and heights of the image and the samples per pixel and
\* direction: the small images, and a square one of more than
\* TABLE_SIZE / 2 samples
SamplerArgs ==
    { <<w, h, n>> : w \in 0..MaxSide, h \in 0..MaxSide,
                    n \in 1..MaxSamplesDir }
    \cup { <<LongSide, LongSide, 1>> }

\* sampler.init(w, h, n) of main
SamplerInit(w, h, n) ==
    /\ ~sampled.started
    /\ sampler' = sampler_init(w, h, n)
    /\ sampled' = [NoSamples EXCEPT !.started = TRUE, !.w = w, !.h = h,
                                    !.n = n]
    /\ UNCHANGED <<world_vars, box_vars, cam_vars, shape_vars, io_vars,
                   node_vars, mem_vars>>

\* a turn of the loop of main: while(!sampler.is_done()) sampler.next(...)
SamplerNext ==
    /\ sampled.started
    /\ ~is_done(sampler)
    /\ sampled' = [sampled EXCEPT !.calls = @ + 1, !.c = next_c(sampler),
                                  !.r = next_r(sampler),
                                  !.rand = sampler.next_rand]
    /\ sampler' = sampler_next(sampler)
    /\ UNCHANGED <<world_vars, box_vars, cam_vars, shape_vars, io_vars,
                   node_vars, mem_vars>>

NextSampler ==
    \/ \E a \in SamplerArgs : SamplerInit(a[1], a[2], a[3])
    \/ SamplerNext

SpecSampler == Init /\ [][NextSampler]_vars

(***************************************************************************)
(* SpecOwner: shapes are made and added to a scene_t, and the scene_t is   *)
(* destroyed                                                               *)
(***************************************************************************)
MaxShapes == 6

\* scene_t::add(new shape, transform, shader), the vector taking the
\* capacity cap when it has to grow
SceneAdd(cap) ==
    /\ owner.alive
    /\ Len(heap) < MaxShapes
    /\ IF Len(owner.elements) = owner.capacity
       THEN cap > owner.capacity ELSE cap = owner.capacity
    /\ heap' = vector_resize(Append(heap, 0), owner.elements,
                             Len(owner.elements) = owner.capacity)
    /\ owner' =
          [owner EXCEPT
              !.elements = Append(@, Len(heap) + 1),
              !.capacity = cap,
              !.destroyed =
                  IF Len(owner.elements) = owner.capacity
                  THEN @ + Len(owner.elements) ELSE @]
    /\ UNCHANGED <<world_vars, box_vars, cam_vars, shape_vars, io_vars,
                   node_vars, run_vars>>

\* scene_t::~scene_t
SceneDestroy ==
    /\ owner.alive
    /\ heap' = scene_destroy(heap, owner.elements)
    /\ owner' = [owner EXCEPT !.alive = FALSE, !.elements = <<>>,
                              !.capacity = 0]
    /\ UNCHANGED <<world_vars, box_vars, cam_vars, shape_vars, io_vars,
                   node_vars, run_vars>>

NextOwner ==
    \/ \E cap \in 1..MaxShapes : SceneAdd(cap)
    \/ SceneDestroy

SpecOwner == Init /\ [][NextOwner]_vars

(***************************************************************************)
(* parser_t::read.  A file is its lines as getline gives them (at least    *)
(* one, for the empty file); a line is its whitespace-separated tokens.    *)
(* The state st a line works on is the scene (elements, lights, eye,       *)
(* viewplane) and the locals of read (shader, transform), with the text    *)
(* written to cerr (log), the position (pc) and the value returned (ret).  *)
(***************************************************************************)
Word(s) == [word |-> s, num |-> I(0), isnum |-> FALSE]
Num(n) == [word |-> "", num |-> I(n), isnum |-> TRUE]

\* the i-th float that operator>> extracts after the first token; a field
\* that is missing reads as 0
Float(toks, i) ==
    IF i + 1 <= Len(toks) /\ toks[i + 1].isnum THEN toks[i + 1].num ELSE I(0)
Vec(toks, i) == <<Float(toks, i), Float(toks, i + 1), Float(toks, i + 2)>>

\* the first token of the line
Val(toks) == IF toks = <<>> THEN "" ELSE toks[1].word
\* the number of fields each directive extracts
NumFields(val) ==
    CASE val = "cam" -> 15
      [] val = "sph" -> 4
      [] val = "tri" -> 9
      [] val = "obj" -> 1
      [] val = "ltp" -> 7
      [] val = "ltd" -> 6
      [] val \in {"lta", "xft", "xfr", "xfs"} -> 3
      [] val = "mat" -> 13
      [] OTHER -> 0
\* ss.eof() after the fields of the line are extracted
at_eof(toks) == Len(toks) <= 1 + NumFields(Val(toks))

\* mesh_t::read(filename): the status, and the triangles of the mesh
mesh_read(filename) ==
    IF filename \in {"cube.obj", "input/cube.obj"}
    THEN [ret |-> 0,
          polys |-> << <<V(0, 0, 0), V(1, 0, 0), V(0, 1, 0)>>,
                       <<V(1, 1, 0), V(0, 1, 0), V(1, 0, 0)>> >>]
    ELSE [ret |-> -1, polys |-> <<>>]

\* scene_t::add(mesh, transform, shader)
add_mesh(els, mesh, transform, shader) ==
    els \o [i \in 1..Len(mesh.polys) |->
               Element(triangle_t(mesh.polys[i][1], mesh.polys[i][2],
                                  mesh.polys[i][3]), transform, shader)]

\* transform_t::append_translation, append_rotation and append_scale
append_translation(t, tx, ty, tz) == cat(t, set_translation(NULL, tx, ty, tz))
append_rotation(t, rx, ry, rz) ==
    cat(t, set_rotation(reset(NULL), rx, ry, rz))
append_scale(t, sx, sy, sz) == cat(t, set_scale(NULL, sx, sy, sz))

\* light_t::set_point(val, falloff), set_directional(dir), set_ambient()
set_point(val, falloff, color) ==
    Light(IF falloff = I(1) THEN "POINT_LIGHT_LINEAR_FALLOFF"
          ELSE IF falloff = I(2) THEN "POINT_LIGHT_QUADRATIC_FALLOFF"
          ELSE "POINT_LIGHT_NO_FALLOFF", val, color)
set_directional(dir, color) == Light("DIRECTIONAL_LIGHT", Normalize(dir), color)
set_ambient(color) == Light("AMBIENT_LIGHT", V(0, 0, 0), color)

Report(st, msg) == [st EXCEPT !.log = Append(@, msg)]

\* the `obj` branch, given what mesh_t::read gave
parser_obj(st, mesh) ==
    IF mesh.ret # 0
    THEN [Report(st, "cannot read file") EXCEPT !.pc = "returned", !.ret = -1]
    ELSE [st EXCEPT !.elements = add_mesh(@, mesh, st.transform, st.shader)]

\* the branch of the directive of the line
parser_directive(st, toks, val) ==
    CASE val = "cam" ->
           [st EXCEPT !.eye = Vec(toks, 1),
                      !.viewplane = [LL |-> Vec(toks, 4), LR |-> Vec(toks, 7),
                                     UL |-> Vec(toks, 10), UR |-> Vec(toks, 13)]]
      [] val = "sph" ->
           [st EXCEPT !.elements =
               Append(@, Element(sphere_t(Float(toks, 1), Float(toks, 2),
                                          Float(toks, 3), Float(toks, 4)),
                                 st.transform, st.shader))]
      [] val = "tri" ->
           [st EXCEPT !.elements =
               Append(@, Element(triangle_t(Vec(toks, 1), Vec(toks, 4),
                                            Vec(toks, 7)),
                                 st.transform, st.shader))]
      [] val = "obj" ->
           parser_obj(st, mesh_read(IF Len(toks) >= 2 THEN toks[2].word ELSE ""))
      [] val = "ltp" ->
           [st EXCEPT !.lights =
               Append(@, set_point(Vec(toks, 1), Float(toks, 7), Vec(toks, 4)))]
      [] val = "ltd" ->
           [st EXCEPT !.lights =
               Append(@, set_directional(Vec(toks, 1), Vec(toks, 4)))]
      [] val = "lta" ->
           [st EXCEPT !.lights = Append(@, set_ambient(Vec(toks, 1)))]
      [] val = "mat" ->
           [st EXCEPT !.shader = [ka |-> Vec(toks, 1), kd |-> Vec(toks, 4),
                                  ks |-> Vec(toks, 7), p |-> Float(toks, 10).n,
                                  kr |-> Vec(toks, 11)]]
      [] val = "xft" ->
           [st EXCEPT !.transform =
               append_translation(@, Float(toks, 1), Float(toks, 2),
                                  Float(toks, 3))]
      [] val = "xfr" ->
           [st EXCEPT !.transform =
               append_rotation(@, Float(toks, 1).n, Float(toks, 2).n,
                               Float(toks, 3).n)]
      [] val = "xfs" ->
           [st EXCEPT !.transform =
               append_scale(@, Float(toks, 1), Float(toks, 2), Float(toks, 3))]
      [] val = "xfz" -> [st EXCEPT !.transform = reset(@)]
      [] OTHER -> Report(st, "unsupported feature")

\* the check for additional params, unless the branch returned
parser_extra(st, toks) ==
    IF st.pc = "returned" \/ at_eof(toks) THEN st
    ELSE Report(st, "ignoring extra params")

\* a line that ends the read: unknown directives and extra params abort
parser_line_strict(st, toks) ==
    IF (NumFields(Val(toks)) = 0 /\ Val(toks) # "xfz") \/ ~at_eof(toks)
    THEN [Report(st, "bad line") EXCEPT !.pc = "returned", !.ret = -1]
    ELSE parser_directive(st, toks, Val(toks))

\* a line after which every element holds the current transform and shader
parser_line_shared(st, toks) ==
    LET share(after) ==
            [after EXCEPT !.elements =
                [i \in 1..Len(after.elements) |->
                    [after.elements[i] EXCEPT !.transform = after.transform,
                                              !.shader = after.shader]]]
    IN share(parser_extra(parser_directive(st, toks, Val(toks)), toks))

\* one iteration of the loop of parser_t::read, on the tokens of a line
parser_line(st, toks) ==
    parser_extra(parser_directive(st, toks, Val(toks)), toks)

(***************************************************************************)
(* SpecParse: parser_t::read reads a file into the scene, line by line     *)
(***************************************************************************)
MaxLines == 2

\* the lines of the files: every directive with all its fields, some with
\* extra params, an unknown directive, a blank line, and meshes that can and
\* cannot be read
LineChoices ==
    { <<Word("sph"), Num(0), Num(0), Num(0), Num(1)>>,
      <<Word("sph"), Num(3), Num(0), Num(0), Num(1), Word("red")>>,
      <<Word("tri"), Num(0), Num(0), Num(0), Num(2), Num(0), Num(0),
        Num(0), Num(2), Num(0)>>,
      <<Word("cam"), Num(0), Num(0), Num(5), Num(-2), Num(-2), Num(0),
        Num(2), Num(-2), Num(0), Num(-2), Num(2), Num(0), Num(2), Num(2),
        Num(0), Num(1)>>,
      <<Word("obj"), Word("cube.obj")>>,
      <<Word("obj"), Word("missing.obj")>>,
      <<Word("ltp"), Num(8), Num(0), Num(0), Num(1), Num(1), Num(1)>>,
      <<Word("ltd"), Num(0), Num(-1), Num(0), Num(1), Num(1), Num(1),
        Word("#"), Word("sun")>>,
      <<Word("lta"), Num(1), Num(1), Num(1)>>,
      <<Word("mat"), Num(1), Num(1), Num(1), Num(1), Num(0), Num(0),
        Num(0), Num(1), Num(0), Num(2), Num(1), Num(1), Num(1)>>,
      <<Word("xft"), Num(1), Num(0), Num(0)>>,
      <<Word("xfr"), Num(0), Num(0), Num(90)>>,
      <<Word("xfs"), Num(2), Num(2), Num(2), Num(2)>>,
      <<Word("xfz")>>,
      <<Word("sphere"), Num(0), Num(0), Num(0), Num(1)>>,
      <<>> }

\* a longer file: a sphere under a translation and a material, then a
\* rotation, a reset and a triangle
ScriptedLines ==
    << <<Word("xft"), Num(1), Num(0), Num(0)>>,
       <<Word("mat"), Num(1), Num(1), Num(1), Num(1), Num(0), Num(0),
         Num(0), Num(1), Num(0), Num(2), Num(1), Num(1), Num(1)>>,
       <<Word("sph"), Num(0), Num(0), Num(0), Num(1)>>,
       <<Word("xfr"), Num(0), Num(0), Num(90)>>,
       <<Word("xfz")>>,
       <<Word("tri"), Num(0), Num(0), Num(0), Num(2), Num(0), Num(0),
         Num(0), Num(2), Num(0)>> >>

RECURSIVE LinesUpTo(_)
LinesUpTo(n) ==
    IF n = 1 THEN { <<l>> : l \in LineChoices }
    ELSE LinesUpTo(n - 1) \cup
         { Append(ls, l) : ls \in LinesUpTo(n - 1), l \in LineChoices }

\* the files that can be opened, and one that cannot
Files == { [open |-> TRUE, lines |-> ls] : ls \in LinesUpTo(MaxLines) }
             \cup { [open |-> TRUE, lines |-> ScriptedLines], NoFile }

\* the scene and the locals of read, as parser_line takes them
ParserState ==
    [elements |-> elements, lights |-> lights, eye |-> eye,
     viewplane |-> viewplane, shader |-> parser.shader,
     transform |-> parser.transform, log |-> parser.log, pc |-> parser.pc,
     ret |-> parser.ret]

ParserStore(st) ==
    /\ elements' = st.elements
    /\ lights' = st.lights
    /\ eye' = st.eye
    /\ viewplane' = st.viewplane
    /\ parser' = [parser EXCEPT !.shader = st.shader,
                                !.transform = st.transform, !.log = st.log,
                                !.pc = st.pc, !.ret = st.ret,
                                !.lines = Tail(@)]
    /\ UNCHANGED <<recursion_depth, render_normal_shading,
                   use_brute_force_search, tree, pc, search_vars, trace_vars,
                   xf_vars, box_vars, cam_ray, shape_vars, process, node_vars,
                   run_vars, mem_vars>>

\* parser_t::read(filename, scene) up to its loop
ParserRead(file) ==
    /\ parser.pc = "idle"
    /\ process.pc = "idle"
    /\ parser' =
          IF file.open
          THEN [NoParser EXCEPT !.pc = "reading", !.file = file,
                                !.lines = file.lines]
          ELSE [NoParser EXCEPT !.pc = "returned", !.file = file, !.ret = -1,
                                !.log = <<"Unable to open file">>]
    /\ UNCHANGED <<world_vars, box_vars, cam_vars, shape_vars, process, node_vars,
                   run_vars, mem_vars>>

\* one iteration of the loop, on the next line
ParserLine ==
    /\ parser.pc = "reading"
    /\ parser.lines # <<>>
    /\ ParserStore(parser_line(ParserState, Head(parser.lines)))

\* the end of the file: read returns 0
ParserEof ==
    /\ parser.pc = "reading"
    /\ parser.lines = <<>>
    /\ parser' = [parser EXCEPT !.pc = "returned", !.ret = 0]
    /\ UNCHANGED <<world_vars, box_vars, cam_vars, shape_vars, process, node_vars,
                   run_vars, mem_vars>>

\* scene_t::init(filename, rd, debug) on the scene sc: the statically
\* defined scene is added, whatever filename is, and 0 is returned.  The
\* meshes are read by mesh_t(filename), which drops the status of read;
\* input/teapot.obj is not among the files of the model, so that the two
\* teapots add nothing and their transforms and shaders play no part.
scene_init(sc, filename, rd, debug) ==
    LET built(els) ==
            [ret |-> 0,
             scene |-> [elements |-> els,
                        lights |-> sc.lights \o
                            << set_point(V(10, 10, 10), I(0), V(1, 1, 1)),
                               set_ambient(<<Q(1, 5), Q(1, 5), Q(1, 5)>>) >>,
                        eye |-> V(0, 0, 0),
                        viewplane |-> [UL |-> V(-1, 1, -1), UR |-> V(1, 1, -1),
                                       LL |-> V(-1, -1, -1),
                                       LR |-> V(1, -1, -1)],
                        recursion_depth |-> rd,
                        render_normal_shading |-> debug,
                        use_brute_force_search |-> FALSE,
                        tree |-> tree_init(els)]]
        room(els) ==
            add_mesh(els, mesh_read("input/cube.obj"),
                     append_translation(
                         append_scale(reset(NULL), I(30), I(30), I(200)),
                         Q(-1, 2), Q(-1, 2), Q(-1, 2)),
                     [ka |-> <<Q(1, 10), Q(1, 10), Q(1, 10)>>,
                      kd |-> <<Q(9, 10), Q(9, 10), Q(9, 10)>>,
                      ks |-> <<Q(2, 5), Q(1, 5), Q(1, 5)>>, p |-> 100,
                      kr |-> <<Q(1, 10), Q(1, 10), Q(1, 10)>>])
        other_teapot(els) ==
            add_mesh(els, mesh_read("input/teapot.obj"), reset(NULL),
                     DefaultShader)
        teapot(els) ==
            add_mesh(els, mesh_read("input/teapot.obj"),
                     append_translation(reset(NULL), I(-11), I(-3), I(-25)),
                     DefaultShader)
    IN built(room(other_teapot(teapot(sc.elements))))

\* the loop of main over args.infiles, from the i-th on
RECURSIVE main_init(_, _, _, _, _)
main_init(sc, infiles, i, rd, debug) ==
    LET next(r) ==
            IF r.ret # 0 THEN [code |-> 2, scene |-> r.scene]
            ELSE main_init(r.scene, infiles, i + 1, rd, debug)
    IN IF i > Len(infiles) THEN [code |-> 0, scene |-> sc]
       ELSE next(scene_init(sc, infiles[i], rd, debug))

\* the scene of a scene_t
TheScene ==
    [elements |-> elements, lights |-> lights, eye |-> eye,
     viewplane |-> viewplane, recursion_depth |-> recursion_depth,
     render_normal_shading |-> render_normal_shading,
     use_brute_force_search |-> use_brute_force_search, tree |-> tree]

MainExit(infiles, r) ==
    /\ process' = [pc |-> "exited", infiles |-> infiles, code |-> r.code]
    /\ elements' = r.scene.elements
    /\ lights' = r.scene.lights
    /\ eye' = r.scene.eye
    /\ viewplane' = r.scene.viewplane
    /\ recursion_depth' = r.scene.recursion_depth
    /\ render_normal_shading' = r.scene.render_normal_shading
    /\ use_brute_force_search' = r.scene.use_brute_force_search
    /\ tree' = r.scene.tree
    /\ UNCHANGED <<pc, search_vars, trace_vars, xf_vars, box_vars, cam_ray,
                   shape_vars, parser, node_vars,
                   run_vars, mem_vars>>

\* the input files of main: one that cannot be opened, a scene of one
\* sphere, and a scene whose mesh cannot be read
MainFiles ==
    { NoFile,
      [open |-> TRUE,
       lines |-> << <<Word("sph"), Num(0), Num(0), Num(0), Num(1)>> >>],
      [open |-> TRUE, lines |-> << <<Word("obj"), Word("missing.obj")>> >>] }
\* the recursion depths of the command line
Depths == {0, 1}

\* main(argc, argv), with what raytrace_args_t::parse made of the command
\* line; the rendering and the export change nothing of the scene
Main(args_ok, infiles, rd, debug) ==
    /\ process.pc = "idle"
    /\ parser.pc = "idle"
    /\ pc = "idle"
    /\ elements = <<>>
    /\ MainExit(infiles,
                IF args_ok THEN main_init(TheScene, infiles, 1, rd, debug)
                ELSE [code |-> 1, scene |-> TheScene])

NextParse ==
    \/ \E file \in Files : ParserRead(file)
    \/ ParserLine
    \/ ParserEof
    \/ \E args_ok \in BOOLEAN, f \in MainFiles, g \in MainFiles \cup {<<>>},
          rd \in Depths, debug \in BOOLEAN :
          Main(args_ok, IF g = <<>> THEN <<f>> ELSE <<f, g>>, rd, debug)

SpecParse == Init /\ [][NextParse]_vars

(***************************************************************************)
(* SpecNode: leaf nodes are collected and aabb_node_t::init is called on   *)
(* them                                                                    *)
(***************************************************************************)
MaxLeaves == 4

\* the bounds of the leaves: boxes with midpoints along the x axis at 0, 1
\* and 2, one off the axis, and two more boxes with the midpoint of the
\* first
LeafBounds ==
    { << <<I(-1), I(1)>>, <<I(-1), I(1)>>, <<I(-1), I(1)>> >>,
      << <<I(0), I(2)>>, <<I(-1), I(1)>>, <<I(-1), I(1)>> >>,
      << <<I(1), I(3)>>, <<I(-2), I(2)>>, <<I(-1), I(1)>> >>,
      << <<I(-1), I(1)>>, <<I(2), I(6)>>, <<I(-1), I(3)>> >>,
      << <<I(-3), I(3)>>, <<I(-1), I(1)>>, <<I(-2), I(2)>> >>,
      << <<I(0), I(0)>>, <<I(0), I(0)>>, <<I(0), I(0)>> >> }

\* one more leaf, as aabb_tree_t::init makes them: its index is its place
LeafAdd(b) ==
    /\ the_node = NULL
    /\ Len(the_leaves) < MaxLeaves
    /\ the_leaves' = Append(the_leaves, node_init_leaf(Len(the_leaves), b))
    /\ UNCHANGED <<world_vars, box_vars, cam_vars, shape_vars, io_vars,
                   the_node, run_vars, mem_vars>>

\* aabb_node_t::init(leaf_nodes) on a new node
NodeInit ==
    /\ the_node = NULL
    /\ the_node' = New(node_init(the_leaves))
    /\ UNCHANGED <<world_vars, box_vars, cam_vars, shape_vars, io_vars,
                   the_leaves, run_vars, mem_vars>>

NextNode ==
    \/ \E b \in LeafBounds : LeafAdd(b)
    \/ NodeInit

SpecNode == Init /\ [][NextNode]_vars

(***************************************************************************)
(* Properties of the tree and of the searches, under Spec                  *)
(***************************************************************************)
Found(res) == res.i_best # Len(elements)
Searched(sc) == pc = "searched" /\ tree # NULL /\ query.shortcircuit = sc
Shaped(i) == elements[i + 1].shape # NullShape
ShapedIndices == { i \in 0..(Len(elements) - 1) : Shaped(i) }

\* the nodes below and at a pointer, and the indices of the leaves in order
RECURSIVE Nodes(_)
Nodes(ptr) ==
    IF ptr = NULL THEN {}
    ELSE {Deref(ptr)} \cup Nodes(Deref(ptr).children[1])
                      \cup Nodes(Deref(ptr).children[2])
RECURSIVE LeafIndices(_)
LeafIndices(ptr) ==
    IF ptr = NULL THEN <<>>
    ELSE IF isleaf(Deref(ptr)) THEN <<Deref(ptr).index>>
    ELSE LeafIndices(Deref(ptr).children[1])
         \o LeafIndices(Deref(ptr).children[2])
Occurrences(seq, x) == Cardinality({ k \in 1..Len(seq) : seq[k] = x })

\* C1: on a tree built by init, a search for the nearest hit returns the
\* same element index, t and normal as the linear scan, and both report
\* no hit in the same cases
TreeEqualsBruteForce ==
    Searched(FALSE) =>
        /\ Found(res_tree) <=> Found(res_brute)
        /\ Found(res_tree) =>
              /\ res_tree.i_best = res_brute.i_best
              /\ Eq(res_tree.t_best, res_brute.t_best)
              /\ VEq(res_tree.n_best, res_brute.n_best)

\* C5: every node of a built tree has no child or two children, never one
ChildrenNoneOrTwo ==
    \A node \in Nodes(tree) :
        \/ isleaf(node)
        \/ node.children[1] # NULL /\ node.children[2] # NULL

\* a tree of three leaves: the root and one of its children have children
TreeOfThreeLeaves ==
    /\ tree # NULL
    /\ Len(LeafIndices(tree)) = 3
    /\ \E k \in 1..NUM_CHILDREN_PER_NODE :
          ~isleaf(Deref(Deref(tree).children[k]))

\* the union of two boxes, axis by axis
BoxMin(a, b) == IF Lt(b, a) THEN b ELSE a
BoxMax(a, b) == IF Lt(a, b) THEN b ELSE a
IsUnion(box, b1, b2) ==
    \A i \in Dims :
        /\ Eq(B(box, i, 0), BoxMin(B(b1, i, 0), B(b2, i, 0)))
        /\ Eq(B(box, i, 1), BoxMax(B(b1, i, 1), B(b2, i, 1)))
Contains(box, b) ==
    \A i \in Dims : Le(B(box, i, 0), B(b, i, 0)) /\ Le(B(b, i, 1), B(box, i, 1))
WorldBox(i) == aabb_apply(get_bounds(elements[i + 1].shape),
                          elements[i + 1].transform)

\* C6: the box of every node with children is the union of the boxes of its
\* two children, and contains the world box of every leaf below it
BoundsAreUnionOfChildren ==
    \A node \in Nodes(tree) :
        ~isleaf(node) =>
            /\ IsUnion(node.bounds, Deref(node.children[1]).bounds,
                       Deref(node.children[2]).bounds)
            /\ \A k \in 1..NUM_CHILDREN_PER_NODE :
                  LET below == LeafIndices(node.children[k])
                  IN \A j \in 1..Len(below) :
                        Contains(node.bounds, WorldBox(below[j]))

\* a tree of three leaves whose two children of the root have different boxes
TreeOfDifferentBoxes ==
    /\ tree # NULL
    /\ Len(LeafIndices(tree)) = 3
    /\ ~Contains(Deref(Deref(tree).children[1]).bounds,
                 Deref(Deref(tree).children[2]).bounds)
    /\ ~Contains(Deref(Deref(tree).children[2]).bounds,
                 Deref(Deref(tree).children[1]).bounds)

\* C7: in a built tree every element with a shape is in exactly one leaf, no
\* leaf holds an element without a shape, and when some element has a shape
\* no leaf holds the index -1
EveryShapedElementInOneLeaf ==
    tree # NULL =>
        LET leaves == LeafIndices(tree)
        IN /\ \A i \in ShapedIndices : Occurrences(leaves, i) = 1
           /\ \A k \in 1..Len(leaves) :
                 leaves[k] # -1 => leaves[k] \in ShapedIndices
           /\ ShapedIndices # {} => Occurrences(leaves, -1) = 0

\* a tree built over two elements with a shape and one without
TreeOverMixedElements ==
    /\ tree # NULL
    /\ Cardinality(ShapedIndices) = 2
    /\ Len(elements) = 3
    /\ Len(LeafIndices(tree)) = 2

\* C8: a search of a tree that was never built, was cleared or was built
\* over no element with a shape finds nothing and tests no element
EmptyTreeFindsNothing ==
    (pc = "searched" /\ (tree = NULL \/ ShapedIndices = {})) =>
        /\ res_tree.i_best = Len(elements)
        /\ res_tree.calls = <<>>

\* a search of a tree without a root, of elements the linear scan hits
SearchOfMissingTree ==
    /\ pc = "searched"
    /\ tree = NULL
    /\ Found(res_brute)

\* C9: every search of the tree ends either with nothing found and t_best
\* at t_max, or at an element with a shape that the ray intersects, with
\* t_best between t_min and t_max
SearchResultIsExplicit ==
    pc = "searched" =>
        \/ res_tree.i_best = Len(elements) /\ Eq(res_tree.t_best, query.t_max)
        \/ /\ res_tree.i_best \in ShapedIndices
           /\ element_intersects(elements[res_tree.i_best + 1], query.ray,
                                 query.t_min, query.t_max).hit
           /\ Le(query.t_min, res_tree.t_best)
           /\ Le(res_tree.t_best, query.t_max)

(***************************************************************************)
(* Properties of scene_t::trace, under SpecTrace                           *)
(***************************************************************************)
Traced == pc = "traced"
Levels == result.levels
ColorEq(a, b) == \A i \in Dims : Eq(a[i], b[i])

\* some element intersects the shadow ray from pos toward the light at a
\* distance strictly between EPSILON and the distance of the light
Occluded(light, pos) ==
    \E i \in 1..Len(elements) :
        LET h == element_intersects(elements[i], shadow_ray(light, pos),
                                    EPSILON, get_distance(light, pos))
        IN /\ h.hit
           /\ Lt(EPSILON, h.t)
           /\ Lt(h.t, get_distance(light, pos))

RECURSIVE SumAdded(_, _)
SumAdded(lit, j) ==
    IF j > Len(lit) THEN Black
    ELSE color_add(lit[j].added, SumAdded(lit, j + 1))

\* C2: at a shaded hit, a point or directional light whose shadow ray is
\* intersected by some element between EPSILON and the light adds nothing
\* to the color, every ambient light adds its ambient term, and the
\* color returned is the sum of what the lights added and the reflection
OccludedLightAddsNothing ==
    Traced =>
        /\ \A k \in 1..Len(Levels) :
              Levels[k].kind = "shaded" =>
                  \A j \in 1..Len(lights) :
                      IF is_ambient(lights[j])
                      THEN ColorEq(Levels[k].lit[j].added,
                                   compute_ambient(elements[Levels[k].i_best + 1],
                                                   lights[j]))
                      ELSE Occluded(lights[j], Levels[k].pos) =>
                               ColorEq(Levels[k].lit[j].added, Black)
        /\ Levels[1].kind = "shaded" =>
              ColorEq(result.color,
                      color_add(SumAdded(Levels[1].lit, 1), Levels[1].reflected))

\* C3: a call with r < 0 returns black at once without a search; otherwise
\* every invocation is followed by at most one more, made with r - 1, and
\* at most r + 1 searches for the nearest hit are made
NearestSearches == Cardinality({ k \in 1..Len(Levels) : Levels[k].kind # "base" })
TraceDepthIsBounded ==
    Traced =>
        /\ call.r < 0 =>
              /\ result.color = Black
              /\ Levels = <<[kind |-> "base", r |-> call.r, ray |-> call.ray]>>
        /\ call.r >= 0 => NearestSearches <= call.r + 1
        /\ \A k \in 1..Len(Levels) :
              /\ Levels[k].r = call.r - (k - 1)
              /\ k < Len(Levels) => Levels[k].kind = "shaded"
              /\ Levels[k].kind = "base" <=> Levels[k].r < 0

\* a call that went all the way down: MaxDepth + 1 searches that hit, and
\* then the base case
TraceReachedBaseCase ==
    /\ Traced
    /\ call.r = MaxDepth
    /\ Len(Levels) = MaxDepth + 2
    /\ NearestSearches = MaxDepth + 1

LevelColor(k) ==
    IF Levels[k].kind = "shaded"
    THEN color_add(SumAdded(Levels[k].lit, 1), Levels[k].reflected)
    ELSE IF Levels[k].kind = "debug"
    THEN compute_normal_shading(Levels[k].normal_best)
    ELSE Black
\* V of the spec: the unit direction from the hit point toward the origin of
\* the ray being traced
TowardRayOrigin(lv) == Normalize(VSub(lv.ray.origin, lv.pos))
\* R_v = -V + 2 (V . N) N
Reflect(Vw, N) == VAdd(VNeg(Vw), VScale(Mul(I(2), Dot(Vw, N)), N))
\* the invocation at level k bounced as the spec says, with V as given
BouncedAbout(k, Vw) ==
    /\ VEq(Levels[k].pos, point_at(Levels[k].ray, Levels[k].t_best))
    /\ Levels[k].bounce = ray_set(Levels[k].pos,
                                  Reflect(Vw, Levels[k].normal_best))
    /\ k < Len(Levels)
    /\ Levels[k + 1].ray = Levels[k].bounce
    /\ Levels[k + 1].r = Levels[k].r - 1
    /\ ColorEq(Levels[k].reflected,
               color_mul(elements[Levels[k].i_best + 1].shader.kr,
                         LevelColor(k + 1)))

\* C23: on every non-debug hit scene_t::trace adds kr * trace(bounce,
\* depth - 1) to the color, where the bounce ray starts at the hit point
\* with direction -V + 2 (V . N) N and V is, at every recursion level, the
\* unit direction from the hit point back toward the origin of the ray
\* being traced.
ReflectionAboutViewerOfRay ==
    Traced =>
        /\ ColorEq(result.color, LevelColor(1))
        /\ \A k \in 1..Len(Levels) :
              Levels[k].kind = "shaded" =>
                  /\ VEq(Levels[k].viewdir, TowardRayOrigin(Levels[k]))
                  /\ BouncedAbout(k, TowardRayOrigin(Levels[k]))

\* the lights of kind AMBIENT_LIGHT, and the lights a shadow query was made for
AmbientLights == { j \in 1..Len(lights) : lights[j].type = "AMBIENT_LIGHT" }
ShadowQueries(lv) ==
    { j \in 1..Len(lv.lit) : lv.lit[j].kind \in {"shadowed", "lit"} }

\* C24: for every hit in non-debug mode each ambient light adds exactly
\* ka * light color to the result and is never shadow-tested: no shadow
\* query is issued for an ambient light and no occluder removes what it adds.
AmbientIsNeverShadowed ==
    Traced =>
        \A k \in 1..Len(Levels) :
            Levels[k].kind = "shaded" =>
                /\ Len(Levels[k].lit) = Len(lights)
                /\ ShadowQueries(Levels[k]) = (1..Len(lights)) \ AmbientLights
                /\ \A j \in AmbientLights :
                      /\ Levels[k].lit[j].kind = "ambient"
                      /\ ColorEq(Levels[k].lit[j].added,
                                 color_mul(elements[Levels[k].i_best + 1].shader.ka,
                                           lights[j].color))
                /\ k = 1 =>
                      ColorEq(result.color,
                              color_add(SumAdded(Levels[1].lit, 1),
                                        Levels[1].reflected))

\* a hit where another light is shadowed by an occluder and the ambient
\* light still adds its term
AmbientAddedInShadow ==
    /\ Traced
    /\ Levels[1].kind = "shaded"
    /\ \E j \in AmbientLights :
          ~ColorEq(Levels[1].lit[j].added, Black)
    /\ \E j \in 1..Len(lights) : Levels[1].lit[j].kind = "shadowed"

\* the world-space normal of the nearest hit of the ray of the call
HitNormal == nearest_hit(call.ray).n_best
HitsSomething == nearest_hit(call.ray).i_best # Len(elements)

\* C25: when normal-shading debug mode is enabled scene_t::trace returns for
\* every hit the color 0.5 * (n + 1) per channel of the world-space hit
\* normal and performs no light evaluation, no shadow query and no
\* reflection recursion; a miss still returns black.
DebugShadesTheNormalOnly ==
    (Traced /\ render_normal_shading /\ call.r >= 0) =>
        /\ Len(Levels) = 1
        /\ Levels[1].kind = IF HitsSomething THEN "debug" ELSE "miss"
        /\ HitsSomething =>
              \A i \in Dims :
                  Eq(result.color[i], Div(Add(HitNormal[i], I(1)), I(2)))
        /\ ~HitsSomething => result.color = Black

\* a debug rendering of the sphere of a scene with lights and a shiny
\* shader: the color is that of the normal (1, 0, 0)
DebugHitOnShinySphere ==
    /\ Traced
    /\ render_normal_shading
    /\ call.r = MaxDepth
    /\ HitsSomething
    /\ Len(lights) > 0
    /\ elements[Levels[1].i_best + 1].shader.kr # Black
    /\ result.color = <<I(1), Q(1, 2), Q(1, 2)>>

(***************************************************************************)
(* Properties of transform_t, under SpecXf                                 *)
(***************************************************************************)
Points == { V(0, 0, 0), V(1, 2, 3) }

\* C10: after every mutator H_inv is the inverse of H, and apply_inverse
\* takes the image of a point under apply back to the point
InverseIsKept ==
    \A k \in Objects :
        /\ MatEq(MatMul(xf[k].H, xf[k].H_inv), Identity4)
        /\ \A p \in Points : VEq(apply_inverse(xf[k], apply(xf[k], p)), p)

\* C11: cat is post-multiplication: after A.cat(B), A.apply(p) is
\* B.apply of the point that the original A takes p to, for every point p
CatIsPostMultiplication ==
    [][\A k \in Objects, o \in Objects :
          XfCat(k, o) =>
              \A p \in Points :
                  VEq(apply(xf'[k], p), apply(xf[o], apply(xf[k], p)))]_vars

\* a translation after which a scale was catenated: the two do not commute
CatOfTranslationAndScale ==
    /\ xf[2].H = ScaleMatrix(I(2), I(2), I(2))
    /\ xf[1].H = MatMul(xf[2].H, TranslationMatrix(I(1), I(0), I(0)))
    /\ xf[1].H # MatMul(TranslationMatrix(I(1), I(0), I(0)), xf[2].H)

(***************************************************************************)
(* Properties of aabb_t, under SpecBox                                     *)
(***************************************************************************)
\* min > max on every axis
Invalid(b) == \A i \in Dims : Gt(B(b, i, 0), B(b, i, 1))
PointBox(p) == << <<p[1], p[1]>>, <<p[2], p[2]>>, <<p[3], p[3]>> >>
\* no min of b is above the min of a, no max of b below the max of a
Grown(a, b) ==
    \A i \in Dims : Le(B(b, i, 0), B(a, i, 0)) /\ Ge(B(b, i, 1), B(a, i, 1))

\* C12: on the invalid box, expand_to(point) leaves min = max = the point
\* and expand_to(box) leaves the input box; on every later box expand_to
\* only lowers mins and raises maxes, and the result contains the input
ExpandToGrows ==
    [][/\ \A p \in BoxPoints :
            BoxExpandToPoint(p) =>
                IF Invalid(aabb) THEN aabb' = PointBox(p)
                ELSE Grown(aabb, aabb') /\ Contains(aabb', PointBox(p))
       /\ \A b \in BoxArgs :
            BoxExpandToBox(b) =>
                IF Invalid(aabb) THEN aabb' = b
                ELSE Grown(aabb, aabb') /\ Contains(aabb', b)]_vars

\* a box grown by a box on one side and by a point on the other
BoxGrownTwice ==
    /\ aabb[1] = <<I(-2), I(2)>>
    /\ aabb[3] = <<I(-1), I(4)>>

(***************************************************************************)
(* Properties of camera_t, under SpecCamera                                *)
(***************************************************************************)
\* the ray starts at the eye and points at the point c
RayThrough(ray, c) ==
    /\ VEq(ray.origin, eye)
    /\ VEq(Cross(ray.direction, VSub(c, eye)), V(0, 0, 0))
    /\ Gt(Dot(ray.direction, VSub(c, eye)), I(0))
Centroid(pl) ==
    VScale(Q(1, 4), VAdd(VAdd(pl.UL, pl.UR), VAdd(pl.LL, pl.LR)))

\* C13: get_ray gives a ray from the eye through LL at (u, v) = (0, 0),
\* through UR at (1, 1) and through the centroid of the corners at (1/2, 1/2)
GetRayThroughCorners ==
    cam_ray.valid =>
        /\ (cam_ray.u = I(0) /\ cam_ray.v = I(0)
                => RayThrough(cam_ray.ray, viewplane.LL))
        /\ (cam_ray.u = I(1) /\ cam_ray.v = I(1)
                => RayThrough(cam_ray.ray, viewplane.UR))
        /\ (cam_ray.u = Q(1, 2) /\ cam_ray.v = Q(1, 2)
                => RayThrough(cam_ray.ray, Centroid(viewplane)))


(***************************************************************************)
(* The order of the visits of aabb_node_t::trace, under Spec               *)
(***************************************************************************)
\* the place of the call on node among the calls of the search, or 0
VisitOf(node) ==
    IF \E k \in 1..Len(res_tree.visits) : res_tree.visits[k].node = node
    THEN CHOOSE k \in 1..Len(res_tree.visits) : res_tree.visits[k].node = node
    ELSE 0
Visited(node) == VisitOf(node) > 0
\* where the ray of the search enters the box of a node
Entry(node) ==
    aabb_intersects(node.bounds, query.ray, query.t_min, query.t_max)
\* the box is hit, nearer than the best t so far
Qualifies(node, t_best) == Entry(node).hit /\ Lt(Entry(node).t, t_best)

\* the children C and D of a node called with t_best
ChildOrder(C, D, t_best) ==
    /\ Visited(C) => Qualifies(C, t_best)
    /\ /\ Qualifies(C, t_best)
       /\ Qualifies(D, t_best)
       /\ Lt(Entry(C).t, Entry(D).t)
       /\ Visited(D)
       => /\ Visited(C)
          /\ VisitOf(C) < VisitOf(D)
          /\ ~Lt(res_tree.visits[VisitOf(D)].t_best, Entry(D).t)

\* C20: in aabb_node_t::trace at an internal node, a child is visited only
\* if the ray hits its box with an entry distance strictly less than the
\* current best t; when both children qualify, the child with the smaller
\* entry distance is traversed first, and the other child afterwards only
\* if the best t found so far is not smaller than its entry distance.
NearerChildFirst ==
    pc = "searched" =>
        \A k \in 1..Len(res_tree.visits) :
            ~isleaf(res_tree.visits[k].node) =>
                /\ ChildOrder(Deref(res_tree.visits[k].node.children[1]),
                              Deref(res_tree.visits[k].node.children[2]),
                              res_tree.visits[k].t_best)
                /\ ChildOrder(Deref(res_tree.visits[k].node.children[2]),
                              Deref(res_tree.visits[k].node.children[1]),
                              res_tree.visits[k].t_best)

\* both children of the root qualify; the nearer was traversed and found a
\* hit before the box of the other, which was not traversed
FartherChildPruned ==
    /\ pc = "searched"
    /\ tree # NULL
    /\ ~isleaf(Deref(tree))
    /\ \E c \in 1..NUM_CHILDREN_PER_NODE :
          /\ Qualifies(Deref(Deref(tree).children[c]), query.t_max)
          /\ Qualifies(Deref(Deref(tree).children[3 - c]), query.t_max)
          /\ Visited(Deref(Deref(tree).children[c]))
          /\ ~Visited(Deref(Deref(tree).children[3 - c]))
          /\ Lt(res_tree.t_best, Entry(Deref(Deref(tree).children[3 - c])).t)

(***************************************************************************)
(* Properties of sphere_t and triangle_t, under SpecShape                  *)
(***************************************************************************)
InRange(t, h) == Ge(t, h.t_min) /\ Le(t, h.t_max)

\* the point of the ray at t is on the sphere: t is a root of the quadratic
OnSphere(sph, ray, t) ==
    Eq(SquaredNorm(VSub(point_at(ray, t), sph.center)), sph.radius_squared)
\* the distance along the ray of the point nearest to the centre, and the
\* square of half the distance between the two roots
Nearest(sph, ray) == Dot(ray.direction, VSub(sph.center, ray.origin))
HalfChordSquared(sph, ray) ==
    Sub(sph.radius_squared,
        Sub(SquaredNorm(VSub(sph.center, ray.origin)),
            Mul(Nearest(sph, ray), Nearest(sph, ray))))
NoRealRoot(sph, ray) == Lt(HalfChordSquared(sph, ray), I(0))
SmallerRoot(sph, ray) ==
    Sub(Nearest(sph, ray), Sqrt(HalfChordSquared(sph, ray)))
LargerRoot(sph, ray) ==
    Add(Nearest(sph, ray), Sqrt(HalfChordSquared(sph, ray)))

\* the root the claim names for a call h on sphere sph, given a real root
SphereChoice(sph, h, lo, hi) ==
    /\ h.res.hit => OnSphere(sph, h.ray, h.res.t) /\ InRange(h.res.t, h)
    /\ InRange(lo, h) => h.res.hit /\ Eq(h.res.t, lo)
    /\ Lt(lo, h.t_min) /\ InRange(hi, h) => h.res.hit /\ Eq(h.res.t, hi)

\* C14: sphere_t::intersects reports no hit when the quadratic of the ray
\* and the sphere has no real root; otherwise it returns the smallest root
\* that lies in [t_min, t_max], which is the larger root when the smaller
\* one is below t_min.  For the ray from x = -5 along +x and the unit
\* sphere at the origin it returns t = 4, and t = 6 when t_min is in (4, 6].
SphereReturnsSmallestRootInRange ==
    the_shape.kind = "sphere" /\ shape_hit.valid =>
        /\ NoRealRoot(the_shape, shape_hit.ray) => ~shape_hit.res.hit
        /\ ~NoRealRoot(the_shape, shape_hit.ray) =>
              SphereChoice(the_shape, shape_hit,
                           SmallerRoot(the_shape, shape_hit.ray),
                           LargerRoot(the_shape, shape_hit.ray))
        /\ /\ the_shape = sphere_t(I(0), I(0), I(0), I(1))
           /\ shape_hit.ray = ray_set(V(-5, 0, 0), V(1, 0, 0))
           => /\ InRange(I(4), shape_hit) =>
                    shape_hit.res.hit /\ Eq(shape_hit.res.t, I(4))
              /\ Gt(shape_hit.t_min, I(4)) /\ InRange(I(6), shape_hit) =>
                    shape_hit.res.hit /\ Eq(shape_hit.res.t, I(6))


\* the normal of the plane of the triangle, not normalized
PlaneNormal(tri) == Cross(tri.edges[1], tri.edges[2])
\* the ray is not parallel to the plane of the triangle
Crosses(tri, ray) == ~Eq(Dot(ray.direction, PlaneNormal(tri)), I(0))
\* the distance along the ray at which it crosses the plane
PlaneT(tri, ray) ==
    Div(Dot(VSub(tri.verts[1], ray.origin), PlaneNormal(tri)),
        Dot(ray.direction, PlaneNormal(tri)))
\* the barycentric coordinates of a point w + verts[0] of the plane:
\* w = u * edges[0] + v * edges[1]
BaryU(tri, w) ==
    Div(Dot(Cross(w, tri.edges[2]), PlaneNormal(tri)),
        SquaredNorm(PlaneNormal(tri)))
BaryV(tri, w) ==
    Div(Dot(Cross(tri.edges[1], w), PlaneNormal(tri)),
        SquaredNorm(PlaneNormal(tri)))
InClosedTriangle(u, v) ==
    Ge(u, I(0)) /\ Ge(v, I(0)) /\ Le(Add(u, v), I(1))
OnBoundary(u, v) ==
    InClosedTriangle(u, v) /\ (IsZero(u) \/ IsZero(v) \/ Eq(Add(u, v), I(1)))
\* the determinant of triangle_t::intersects
Det(tri, ray) == Dot(tri.edges[1], Cross(ray.direction, tri.edges[2]))
\* the point at which the ray crosses the plane, relative to verts[0]
CrossingPoint(tri, ray) ==
    VSub(point_at(ray, PlaneT(tri, ray)), tri.verts[1])

TriangleHit(tri, h, w) ==
    /\ h.res.hit <=> InClosedTriangle(BaryU(tri, w), BaryV(tri, w))
    /\ h.res.hit =>
          VEq(h.res.n, IF Lt(Det(tri, h.ray), I(0)) THEN VNeg(tri.normal)
                       ELSE tri.normal)

\* C15: triangle_t::intersects treats the triangle as closed: for a ray
\* that crosses the plane of the triangle at a t in [t_min, t_max] it
\* reports a hit exactly when the barycentric coordinates of the crossing
\* point satisfy u >= 0, v >= 0 and u + v <= 1, so that points on the edges
\* and at the vertices are hits; the normal returned is the stored face
\* normal, negated exactly when the determinant is negative.
TriangleIsClosed ==
    /\ the_shape.kind = "triangle"
    /\ shape_hit.valid
    /\ Crosses(the_shape, shape_hit.ray)
    /\ InRange(PlaneT(the_shape, shape_hit.ray), shape_hit)
    => TriangleHit(the_shape, shape_hit,
                   CrossingPoint(the_shape, shape_hit.ray))

\* a hit on the edge u = 0 from behind: the normal is reversed; and hits
\* at a vertex and on the edge u + v = 1 exist as well
HitOnEdgeFromBehind ==
    /\ the_shape = triangle_t(V(0, 0, 0), V(2, 0, 0), V(0, 2, 0))
    /\ shape_hit.valid
    /\ shape_hit.ray = ray_set(V(0, 1, -4), V(0, 0, 1))
    /\ shape_hit.res.hit
    /\ Eq(shape_hit.res.t, I(4))
    /\ OnBoundary(BaryU(the_shape, CrossingPoint(the_shape, shape_hit.ray)),
                  BaryV(the_shape, CrossingPoint(the_shape, shape_hit.ray)))
    /\ VEq(shape_hit.res.n, V(0, 0, -1))
    /\ Lt(Det(the_shape, shape_hit.ray), I(0))


(***************************************************************************)
(* Properties of parser_t::read, under SpecParse                           *)
(***************************************************************************)
Directives ==
    {"cam", "sph", "tri", "obj", "ltp", "ltd", "lta", "mat", "xft", "xfr",
     "xfs", "xfz"}
Unrecognised(toks) == Val(toks) \notin Directives
\* a recognised line with tokens after its fields, and the line without them
HasExtra(toks) ==
    Val(toks) \in Directives /\ Len(toks) > 1 + NumFields(Val(toks))
Plain(toks) == SubSeq(toks, 1, 1 + NumFields(Val(toks)))
\* an `obj` line whose mesh cannot be read
FailingObj(toks) ==
    Val(toks) = "obj" /\ (Len(toks) < 2 \/ mesh_read(toks[2].word).ret # 0)

\* the scene and the locals of read
Parsed(st) ==
    <<st.elements, st.lights, st.eye, st.viewplane, st.shader, st.transform>>
\* the line was reported with msg last, and the next line is the next read
ReportedAndPassed(msg) ==
    /\ Len(parser'.log) > Len(parser.log)
    /\ parser'.log[Len(parser'.log)] = msg
    /\ parser'.pc = "reading"
    /\ parser'.lines = Tail(parser.lines)

SkippedOrKept(toks) ==
    /\ Unrecognised(toks) =>
          /\ Parsed(ParserState') = Parsed(ParserState)
          /\ parser'.log[Len(parser.log) + 1] = "unsupported feature"
          /\ ReportedAndPassed(IF Len(toks) > 1 THEN "ignoring extra params"
                               ELSE "unsupported feature")
    /\ HasExtra(toks) /\ ~FailingObj(toks) =>
          /\ Parsed(ParserState') =
                Parsed(parser_directive(ParserState, Plain(toks), Val(toks)))
          /\ ReportedAndPassed("ignoring extra params")

\* C16: parser_t::read never aborts on a bad line: a line whose first token
\* is not a recognised directive is reported and skipped, a recognised line
\* with trailing extra tokens is reported and still takes effect, in both
\* cases reading continues with the next line, and read returns 0 at the
\* end of the file.
ReadPassesBadLines ==
    /\ [][ParserLine => SkippedOrKept(Head(parser.lines))]_vars
    /\ [](/\ parser.pc = "returned"
          /\ parser.file.open
          /\ \A i \in 1..Len(parser.file.lines) :
                ~FailingObj(parser.file.lines[i])
          => parser.ret = 0 /\ parser.lines = <<>>)

\* the file of an unknown directive followed by a sphere with an extra
\* param has been read: the sphere is in the scene and read returned 0
BadLinesRead ==
    /\ parser.pc = "returned"
    /\ parser.ret = 0
    /\ parser.file.lines =
          << <<Word("sphere"), Num(0), Num(0), Num(0), Num(1)>>,
             <<Word("sph"), Num(3), Num(0), Num(0), Num(1), Word("red")>> >>
    /\ elements = <<SphereOnAxis>>
    /\ parser.log = <<"unsupported feature", "ignoring extra params",
                      "ignoring extra params">>


\* the file cannot be opened, or one of its meshes cannot be read
Unreadable(file) ==
    ~file.open \/ \E i \in 1..Len(file.lines) : FailingObj(file.lines[i])

\* read returns non-zero and leaves the scene as it is
FailsAddingNothing ==
    /\ parser'.pc = "returned"
    /\ parser'.ret # 0
    /\ Parsed(ParserState') = Parsed(ParserState)

\* C17: an unreadable input file is propagated as a non-zero status:
\* parser_t::read returns non-zero without adding anything when the scene
\* file cannot be opened; it returns non-zero at the `obj` line, processing
\* no later line, when mesh_t::read fails on the mesh file; and main exits
\* with a non-zero code whenever the initialisation of the scene from an
\* input file fails, and with 0 otherwise.
UnreadableFileIsReported ==
    /\ [][\A file \in Files :
            ParserRead(file) /\ ~file.open => FailsAddingNothing]_vars
    /\ [][ParserLine /\ FailingObj(Head(parser.lines)) =>
            FailsAddingNothing]_vars
    /\ [][parser.pc = "returned" => ~ParserLine]_vars
    /\ [](process.pc = "exited" /\ process.code # 1 =>
            (process.code # 0 <=>
                \E i \in 1..Len(process.infiles) :
                    Unreadable(process.infiles[i])))


(***************************************************************************)
(* Properties of aabb_node_t::init, under SpecNode                         *)
(***************************************************************************)
\* the indices of the leaves below a pointer, in order, and as a set
LeavesBelow(ptr) == SelectSeq(LeafIndices(ptr), LAMBDA i : i >= 0)
LeafSet(ptr) == { LeavesBelow(ptr)[k] : k \in 1..Len(LeavesBelow(ptr)) }

\* the midpoint of leaf i of the_leaves on axis d
MidOf(i, d) ==
    Div(Add(the_leaves[i + 1].bounds[d][1], the_leaves[i + 1].bounds[d][2]),
        I(2))
\* the least and the greatest midpoint of the leaves S on axis d
MinMid(S, d) ==
    CHOOSE m \in { MidOf(i, d) : i \in S } : \A j \in S : Le(m, MidOf(j, d))
MaxMid(S, d) ==
    CHOOSE m \in { MidOf(i, d) : i \in S } : \A j \in S : Ge(m, MidOf(j, d))
Span(S, d) == Sub(MaxMid(S, d), MinMid(S, d))
Pivot(S, d) == Div(Add(MinMid(S, d), MaxMid(S, d)), I(2))
\* how many leaves of S come before leaf i
Before(S, i) == Cardinality({ j \in S : j < i })

\* the leaves S are dealt to L and R about the pivot of axis d
DealtAbout(S, L, R, d, pivot) ==
    \A i \in S :
        /\ Lt(MidOf(i, d), pivot) => i \in L
        /\ Gt(MidOf(i, d), pivot) => i \in R
        /\ Eq(MidOf(i, d), pivot) =>
              /\ Before(L, i) < Before(R, i) => i \in L
              /\ Before(R, i) < Before(L, i) => i \in R

SplitOn(S, L, R, d) ==
    /\ \A e \in Dims : Ge(Span(S, d), Span(S, e))
    /\ DealtAbout(S, L, R, d, Pivot(S, d))

\* C18: in aabb_node_t::init with three or more leaves, the split axis is
\* the axis on which the midpoints of the leaves have the largest span, and
\* the pivot is the centre of the box of the midpoints on that axis; every
\* leaf whose midpoint is strictly less than the pivot goes to the left
\* child, every leaf strictly greater to the right child, and a leaf
\* exactly on the pivot to the side that holds fewer leaves at that time.
SplitAtCentreOfMidpoints ==
    \A N \in Nodes(the_node) :
        Len(LeavesBelow(New(N))) >= 3 =>
            \E d \in Dims :
                SplitOn(LeafSet(New(N)), LeafSet(N.children[1]),
                        LeafSet(N.children[2]), d)

\* leaves with midpoints 0, 1 and 2 on the x axis: the first went left, the
\* third right, and the second, on the pivot, right, where fewer were
SplitWithLeafOnPivot ==
    /\ Len(the_leaves) = 3
    /\ \A i \in 0..2 : MidOf(i, 1) = I(i)
    /\ the_node # NULL
    /\ LeavesBelow(Deref(the_node).children[1]) = <<0>>
    /\ LeavesBelow(Deref(the_node).children[2]) = <<1, 2>>

\* a node made of n leaves gave each child some of them, and fewer than n
Shrinks(N, n) ==
    /\ \A c \in 1..NUM_CHILDREN_PER_NODE :
          /\ N.children[c] # NULL
          /\ Len(LeavesBelow(N.children[c])) > 0
          /\ Len(LeavesBelow(N.children[c])) < n
    /\ Len(LeavesBelow(N.children[1])) + Len(LeavesBelow(N.children[2])) = n

ElementHit(i) ==
    element_intersects(elements[i + 1], query.ray, query.t_min, query.t_max)
\* the leaf of element i records its intersection in a short-circuiting
\* search: nothing was recorded before, so t_best is still t_max
Records(i) == ElementHit(i).hit /\ Lt(ElementHit(i).t, query.t_max)
CallsOf(res) == { res.calls[k] : k \in 1..Len(res.calls) }

\* C21: with shortcircuit = true aabb_tree_t::trace stops at the first hit:
\* once a leaf has recorded an intersection, no further element's intersects
\* is called during the rest of the query, whatever nodes remain unvisited.
ShortcircuitStopsAtFirstHit ==
    Searched(TRUE) =>
        /\ \A k \in 1..Len(res_tree.calls) :
              Records(res_tree.calls[k]) =>
                  /\ k = Len(res_tree.calls)
                  /\ res_tree.i_best = res_tree.calls[k]
        /\ Found(res_tree) =>
              /\ Len(res_tree.calls) > 0
              /\ res_tree.i_best = res_tree.calls[Len(res_tree.calls)]

\* a short-circuiting search recorded a hit and returned while another
\* element that the ray also hits was never asked
StoppedBeforeAnotherHit ==
    /\ Searched(TRUE)
    /\ Found(res_tree)
    /\ Records(res_tree.i_best)
    /\ \E j \in ShapedIndices :
          /\ j \notin CallsOf(res_tree)
          /\ Records(j)


\* some element intersects the ray of the search within [t_min, t_max]
SomeElementInRange ==
    \E i \in ShapedIndices :
        /\ ElementHit(i).hit
        /\ Ge(ElementHit(i).t, query.t_min)
        /\ Le(ElementHit(i).t, query.t_max)

\* C22: for every scene, ray and range, aabb_tree_t::trace with shortcircuit
\* = true reports a hit (i_best < elements.size()) exactly when
\* scene_t::brute_force_search with shortcircuit = true does, that is exactly
\* when at least one element intersects the ray at some t in [t_min, t_max],
\* a hit at exactly t = t_max included.
ShortcircuitAgreesWithBruteForce ==
    Searched(TRUE) =>
        /\ Found(res_tree) <=> Found(res_brute)
        /\ Found(res_brute) <=> SomeElementInRange


(***************************************************************************)
(* The transform and the material of the elements read, under SpecParse    *)
(***************************************************************************)
\* the lines of the file that read has gone through
NumConsumed == Len(parser.file.lines) - Len(parser.lines)

\* the transform accumulated by the first n lines: the xft, xfr and xfs
\* directives since the last xfz, appended in the order of the file
RECURSIVE TransformAfter(_, _)
TransformAfter(ls, n) ==
    IF n = 0 \/ Val(ls[n]) = "xfz" THEN IdentityTransform
    ELSE IF Val(ls[n]) = "xft"
    THEN append_translation(TransformAfter(ls, n - 1), Float(ls[n], 1),
                            Float(ls[n], 2), Float(ls[n], 3))
    ELSE IF Val(ls[n]) = "xfr"
    THEN append_rotation(TransformAfter(ls, n - 1), Float(ls[n], 1).n,
                         Float(ls[n], 2).n, Float(ls[n], 3).n)
    ELSE IF Val(ls[n]) = "xfs"
    THEN append_scale(TransformAfter(ls, n - 1), Float(ls[n], 1),
                      Float(ls[n], 2), Float(ls[n], 3))
    ELSE TransformAfter(ls, n - 1)

\* the material set by the last mat directive among the first n lines
RECURSIVE MaterialAfter(_, _)
MaterialAfter(ls, n) ==
    IF n = 0 THEN DefaultShader
    ELSE IF Val(ls[n]) = "mat"
    THEN [ka |-> Vec(ls[n], 1), kd |-> Vec(ls[n], 4), ks |-> Vec(ls[n], 7),
          p |-> Float(ls[n], 10).n, kr |-> Vec(ls[n], 11)]
    ELSE MaterialAfter(ls, n - 1)

\* the step is an iteration of the loop of read
LineRead ==
    /\ parser.pc = "reading"
    /\ parser.lines # <<>>
    /\ parser'.lines = Tail(parser.lines)
\* the number of elements the directive of a line adds
NumAdded(toks) ==
    IF Val(toks) \in {"sph", "tri"} THEN 1
    ELSE IF Val(toks) = "obj" /\ ~FailingObj(toks) THEN 2
    ELSE 0
AddedWithCurrent ==
    /\ Len(elements') = Len(elements) + NumAdded(Head(parser.lines))
    /\ \A i \in 1..Len(elements) : elements'[i] = elements[i]
    /\ \A i \in (Len(elements) + 1)..Len(elements') :
          /\ elements'[i].transform =
                 TransformAfter(parser.file.lines, NumConsumed)
          /\ elements'[i].shader =
                 MaterialAfter(parser.file.lines, NumConsumed)

\* C26: in parser_t::read every element added by a sph, tri or obj
\* directive carries the transform and the material accumulated by the
\* xft / xfr / xfs and mat directives that precede it in the file;
\* directives that come later never change an element already added, and
\* xfz resets the current transform to identity for the shapes that follow.
ElementsCarryCurrentTransformAndMaterial ==
    /\ [][LineRead => AddedWithCurrent]_vars
    /\ [](parser.pc = "reading" =>
             /\ parser.transform = TransformAfter(parser.file.lines, NumConsumed)
             /\ parser.shader = MaterialAfter(parser.file.lines, NumConsumed))

\* the longer file is read to its end: the sphere keeps the translation and
\* the material it was added with, the triangle after xfz has the identity
\* and the same material
ScriptedFileRead ==
    /\ parser.pc = "returned"
    /\ parser.file.lines = ScriptedLines
    /\ parser.ret = 0
    /\ Len(elements) = 2
    /\ elements[1].shape.kind = "sphere"
    /\ elements[1].transform = set_translation(NULL, I(1), I(0), I(0))
    /\ elements[1].shader = MaterialAfter(ScriptedLines, 2)
    /\ elements[1].shader # DefaultShader
    /\ elements[2].shape.kind = "triangle"
    /\ elements[2].transform = IdentityTransform
    /\ elements[2].shader = elements[1].shader


(***************************************************************************)
(* Properties of element_t::intersects, under SpecElement                  *)
(***************************************************************************)
\* the ray of the call in the coordinates of the shape, with its scale, and
\* what the shape gives for it over the range scaled
ObjectRay == apply_inverse_ray(the_element.transform, element_hit.ray)
ObjectHit ==
    shape_intersects(the_element.shape, ObjectRay.ray,
                     Mul(element_hit.t_min, ObjectRay.s),
                     Mul(element_hit.t_max, ObjectRay.s))
\* the hit returned is the hit of the shape, with t divided by the scale
FromObjectSpace ==
    /\ element_hit.res.hit <=> ObjectHit.hit
    /\ element_hit.res.hit => Eq(element_hit.res.t, Div(ObjectHit.t, ObjectRay.s))
\* the point of the world ray at t is the image of the hit point of the shape
SamePoint ==
    VEq(point_at(element_hit.ray, element_hit.res.t),
        apply(the_element.transform, point_at(ObjectRay.ray, ObjectHit.t)))

\* C27: element_t::intersects returns false for an element with a null
\* shape; otherwise it intersects the shape with the inverse-transformed ray
\* over [t_min * scale, t_max * scale] and, on a hit, returns the
\* object-space parameter divided by scale, so that the returned t lies in
\* [t_min, t_max] and ray.point_at(t) in world space is the transform of the
\* object-space hit point.
ElementIntersectsInObjectSpace ==
    element_hit.valid =>
        /\ the_element.shape = NullShape => ~element_hit.res.hit
        /\ the_element.shape # NullShape =>
              /\ FromObjectSpace
              /\ element_hit.res.hit =>
                    /\ InRange(element_hit.res.t, element_hit)
                    /\ SamePoint


(***************************************************************************)
(* The range of the hits of sphere_t::intersects, under SpecShape          *)
(***************************************************************************)
\* C29: whenever sphere_t::intersects returns true the returned t lies in
\* [t_min, t_max], with two roots and also in the tangent case, where the
\* discriminant is exactly zero.
SphereHitIsInRange ==
    the_shape.kind = "sphere" /\ shape_hit.valid /\ shape_hit.res.hit =>
        InRange(shape_hit.res.t, shape_hit)


(***************************************************************************)
(* The samples of main, under SpecSampler                                  *)
(***************************************************************************)
\* the samples that init(w, h, n) asks for
SamplesAsked == sampled.w * sampled.h * sampled.n * sampled.n

\* the pixel, counted row after row, that the last call of next reported
PixelReported == sampled.r * sampled.w + sampled.c

\* C28: after init(w, h, n) with n >= 1, is_done() is false until exactly
\* w*h*n*n calls of next were made and true from then on; the calls report
\* every pixel n*n times, pixel after pixel in row-major order, and the
\* places next_rand and next_rand + 1 of the random table that they read
\* stay below TABLE_SIZE.
SamplerCoversEveryPixel ==
    sampled.started =>
        /\ sampled.calls <= SamplesAsked
        /\ is_done(sampler) <=> sampled.calls = SamplesAsked
        /\ sampler.next_rand + 1 < TABLE_SIZE
        /\ sampled.calls > 0 =>
              /\ sampled.c < sampled.w
              /\ sampled.r < sampled.h
              /\ PixelReported =
                     (sampled.calls - 1) \div (sampled.n * sampled.n)
              /\ sampled.rand + 1 < TABLE_SIZE

\* an image was sampled to the end with more samples than half the table
SampledPastTheTable ==
    /\ sampled.started
    /\ is_done(sampler)
    /\ 2 * sampled.calls > TABLE_SIZE

(***************************************************************************)
(* The shapes of a scene, under SpecOwner                                  *)
(***************************************************************************)
\* the shapes that the elements of the scene point to
ShapesHeld == { owner.elements[i] : i \in 1..Len(owner.elements) }

\* C30: every shape handed to scene_t::add is deleted exactly once, by
\* ~scene_t: while the scene lives no shape was deleted and every shape is
\* the shape of an element, however the vector of elements grew, and once
\* the scene is destroyed every shape was deleted once.
ShapesDeletedOnceByScene ==
    /\ \A p \in 1..Len(heap) : heap[p] = IF owner.alive THEN 0 ELSE 1
    /\ owner.alive => ShapesHeld = 1..Len(heap)

\* a scene whose vector grew, copying and destroying elements that held a
\* shape, was destroyed
SceneDestroyedAfterGrowth ==
    /\ ~owner.alive
    /\ owner.destroyed > 0
    /\ Len(heap) > 1

====
